---------------------------- MODULE Spec2Model ----------------------------
(***************************************************************************)
(* Model of the dual-protocol timeline / interaction engine of enafore.    *)
(*                                                                         *)
(* Several source files hold more than one revision of the same function;  *)
(* each definition below models the revision named in MODEL_MAP.json (the  *)
(* first, most complete copy in the file).                                 *)
(***************************************************************************)
EXTENDS Integers, Sequences, FiniteSets, TLC

(***************************************************************************)
(* Bounds                                                                  *)
(***************************************************************************)
\* status / notification ids are 1..MaxId; a larger id is a newer item
MaxId == 3
\* at most this many pending (streamed) summaries wait in timelineItemSummariesToAdd
MaxToAdd == 1

Ids == 1..MaxId

\* the focal status of the modelled thread timeline "status/<ThreadStatusId>"
ThreadStatusId == MaxId - 1

TimelineNames == {"home", "status", "notifications"}

Summary(i) == [id |-> i]

(***************************************************************************)
(* Pure helpers of the merge engine                                        *)
(***************************************************************************)
\* timelineName.split('/')[0]
TimelineType(timelineName) == timelineName

\* the sort key of a summary: creation order, with the id as tie-break; ids
\* are allocated in creation order
sortKey(summary) == summary.id

compareTimelineItemSummaries(left, right) ==
  IF sortKey(left) < sortKey(right) THEN -1
  ELSE IF sortKey(left) = sortKey(right) THEN 0 ELSE 1

concat(a, b) == a \o b

isEqual(a, b) == a = b

IdsOf(seq) == {seq[i].id : i \in DOMAIN seq}

RECURSIVE uniqByIdFrom(_, _, _)
uniqByIdFrom(array, i, seen) ==
  IF i > Len(array) THEN <<>>
  ELSE IF array[i].id \in seen THEN uniqByIdFrom(array, i + 1, seen)
  ELSE <<array[i]>> \o uniqByIdFrom(array, i + 1, seen \cup {array[i].id})

\* keeps the first item of every id, in order of first appearance
uniqById(array) == uniqByIdFrom(array, 1, {})

RECURSIVE mergeArraysFrom(_, _, _, _)
mergeArraysFrom(leftArray, rightArray, leftIndex, rightIndex) ==
  IF leftIndex > Len(leftArray) /\ rightIndex > Len(rightArray) THEN <<>>
  ELSE IF leftIndex > Len(leftArray)
    THEN <<rightArray[rightIndex]>> \o mergeArraysFrom(leftArray, rightArray, leftIndex, rightIndex + 1)
  ELSE IF rightIndex > Len(rightArray)
    THEN <<leftArray[leftIndex]>> \o mergeArraysFrom(leftArray, rightArray, leftIndex + 1, rightIndex)
  ELSE LET comparison == compareTimelineItemSummaries(rightArray[rightIndex], leftArray[leftIndex])
       IN IF comparison = 0
            THEN <<leftArray[leftIndex]>> \o mergeArraysFrom(leftArray, rightArray, leftIndex + 1, rightIndex + 1)
          ELSE IF comparison > 0
            THEN <<rightArray[rightIndex]>> \o mergeArraysFrom(leftArray, rightArray, leftIndex, rightIndex + 1)
          ELSE <<leftArray[leftIndex]>> \o mergeArraysFrom(leftArray, rightArray, leftIndex + 1, rightIndex)

\* two-pointer merge under the (descending) comparator
mergeArrays(leftArray, rightArray) == mergeArraysFrom(leftArray, rightArray, 1, 1)

RECURSIVE InsertSorted(_, _, _)
\* insert x after every element e with before(e, x) or equal key (stable)
InsertSorted(sorted, x, desc) ==
  IF sorted = <<>> THEN <<x>>
  ELSE LET h == Head(sorted)
           stay == IF desc THEN sortKey(h) >= sortKey(x) ELSE sortKey(h) <= sortKey(x)
       IN IF stay THEN <<h>> \o InsertSorted(Tail(sorted), x, desc)
          ELSE <<x>> \o sorted

RECURSIVE StableSort(_, _)
StableSort(seq, desc) ==
  IF seq = <<>> THEN <<>>
  ELSE InsertSorted(StableSort(SubSeq(seq, 1, Len(seq) - 1), desc), seq[Len(seq)], desc)

\* thread order: ancestors, the focal status, descendants, each oldest first;
\* in one thread an ancestor is older and a descendant newer than the focal
\* status, so thread order is ascending creation order
sortItemSummariesForThread(summaries, statusId) == StableSort(summaries, FALSE)

\* stable newest-first order of one notification batch
sortItemSummariesForNotificationBatch(summaries) == StableSort(summaries, TRUE)

\* Array.prototype.sort(compareTimelineItemSummaries).reverse()
SortReverse(summaries) == StableSort(summaries, TRUE)

SortedDesc(seq) == \A i, j \in DOMAIN seq : i < j => sortKey(seq[i]) >= sortKey(seq[j])
SortedAsc(seq) == \A i, j \in DOMAIN seq : i < j => sortKey(seq[i]) <= sortKey(seq[j])
NoDuplicateIds(seq) == \A i, j \in DOMAIN seq : i # j => seq[i].id # seq[j].id

(***************************************************************************)
(* Inputs: batches as a server returns them                                *)
(***************************************************************************)
RECURSIVE SetToDesc(_)
SetToDesc(S) ==
  IF S = {} THEN <<>>
  ELSE LET m == CHOOSE x \in S : \A y \in S : y <= x
       IN <<Summary(m)>> \o SetToDesc(S \ {m})

RECURSIVE SetToAsc(_)
SetToAsc(S) ==
  IF S = {} THEN <<>>
  ELSE LET m == CHOOSE x \in S : \A y \in S : y >= x
       IN <<Summary(m)>> \o SetToAsc(S \ {m})

\* a page of a feed or of notifications: distinct ids, newest first
FeedBatches == {SetToDesc(S) : S \in SUBSET Ids}
\* a fetched thread: concat(ancestors, status, descendants)
ThreadBatches == {SetToAsc(S) : S \in {T \in SUBSET Ids : ThreadStatusId \in T}}

BatchesFor(timelineName) ==
  IF TimelineType(timelineName) = "status" THEN ThreadBatches ELSE FeedBatches

(***************************************************************************)
(* State                                                                   *)
(***************************************************************************)
VARIABLES
  currentTimeline,                 \* store: the timeline on screen
  timelineItemSummaries,           \* store: timeline name -> summary list
  timelineItemSummariesToAdd,      \* store: timeline name -> pending summaries
  timelineItemSummariesAreStale,   \* store: timeline name -> stale flag
  lastOp,                          \* the operation that produced this state
  idem,                            \* a merge call and its repetition
  online,                          \* store: the browser is online
  currentAccountProtocol,          \* store: protocol of the logged-in account
  statusModifications,             \* store: kind -> status key -> flag and count
  cachedPost,                      \* store: the cached status object of TargetId
  following,                       \* store: relationship to the target account
  postingStatus,                   \* store: a post is being sent
  call,                            \* the user action in progress or last completed
  toasts,                          \* toast.say calls made by that action
  idleTasks,                       \* scheduleIdleTask: local deletions not yet run
  currentAtprotoSessionDid,        \* store: did of the session, "" when none
  atprotoBookmarks,                \* database name -> ATPROTO_BOOKMARKS_STORE keys
  atprotoBookmarkedPostUris,       \* store: bookmarked uris loaded in memory
  atprotoFeedCursors,              \* database name -> ATPROTO_FEED_CURSORS_STORE
  atprotoPosts,                    \* database name -> ATPROTO_POSTS_STORE keys
  timelineNextPageId,              \* store: timeline name -> cursor in memory
  lastTimelineItemId,              \* store: id of the last item on screen
  fetch,                           \* the timeline fetch in progress or last made
  lastSet,                         \* the cursor most recently set, and by whom
  feed,                            \* the feed items the agent has returned so far
  database,                        \* ActivityPub statuses and notifications, atproto timeline refs
  atprotoUnreadNotificationCount,  \* store: unread notifications of the atproto account
  isAtprotoSessionActive,          \* store: an atproto session is active
  currentInstance,                 \* store: the ActivityPub instance in use, "" when none
  atprotoSessions,                 \* store: the dids that have a session object
  agentSession,                    \* the session of the atproto agent, "" when none
  atprotoNotificationsError,       \* store: error of the last notifications fetch, "" when null
  atprotoNotificationsCursor,      \* store: notifications cursor in memory
  atprotoBookmarksList,            \* store: the bookmark records loaded in memory
  atprotoBookmarkRecords,          \* ATPROTO_BOOKMARKS_STORE of the session: uri -> bookmarkedAt
  runningUpdate                    \* store: the timelines whose runningUpdate is true

mergeVars == <<currentTimeline, timelineItemSummaries, timelineItemSummariesToAdd,
               timelineItemSummariesAreStale, lastOp>>

mutVars == <<online, currentAccountProtocol, statusModifications, cachedPost, following,
             postingStatus, call, toasts, idleTasks>>

dbVars == <<currentAtprotoSessionDid, atprotoBookmarks, atprotoBookmarkedPostUris,
            atprotoFeedCursors, atprotoPosts, timelineNextPageId, lastTimelineItemId,
            fetch, lastSet>>

\* the variables outside the merge engine, and those outside both the merge
\* engine and the repeated-merge scenario
cacheVars == <<feed, database, atprotoUnreadNotificationCount>>

\* the session keys of the store, the agent, and the keys of the mixins
storeVars == <<isAtprotoSessionActive, currentInstance, atprotoSessions, agentSession,
               atprotoNotificationsError, atprotoNotificationsCursor, atprotoBookmarksList,
               atprotoBookmarkRecords, runningUpdate>>

restVars == <<mutVars, dbVars, cacheVars, storeVars>>
notMergeVars == <<idem, restVars>>

vars == <<mergeVars, idem, restVars>>

NoOp == [op |-> "none", older |-> TRUE, overlap |-> FALSE, appended |-> FALSE,
         empty |-> FALSE, wasStale |-> FALSE]

\* the record of a merge call: whether every id the batch adds is older than
\* the last stored entry, whether the batch overlaps the stored list, and
\* whether it adds an id to a list that already holds one
MergeOp(name, timelineName, batch) ==
  LET old == timelineItemSummaries[timelineName]
      fresh == {i \in DOMAIN batch : batch[i].id \notin IdsOf(old)}
  IN [op |-> name,
      older |-> \A i \in fresh : old # <<>> => sortKey(batch[i]) < sortKey(old[Len(old)]),
      overlap |-> IdsOf(batch) \cap IdsOf(old) # {},
      appended |-> fresh # {} /\ old # <<>>,
      empty |-> batch = <<>>,
      wasStale |-> timelineItemSummariesAreStale[timelineName]]

(***************************************************************************)
(* Timeline Merge Engine (_actions/timeline.js)                            *)
(***************************************************************************)
\* addTimelineItemSummaries with the fresh batch appended instead of merged
mergedSummariesAppended(timelineName, oldSummaries, newSummaries) ==
  uniqById(concat(oldSummaries, newSummaries))

\* mergedSummaries of addTimelineItemSummaries
mergedSummaries(timelineName, oldSummaries, newSummaries) ==
  LET type == TimelineType(timelineName)
      sortedNew == IF type = "notifications"
                     THEN sortItemSummariesForNotificationBatch(newSummaries)
                     ELSE newSummaries
      merged == uniqById(mergeArrays(oldSummaries, sortedNew))
  IN IF type = "status" THEN sortItemSummariesForThread(merged, ThreadStatusId) ELSE merged

\* addPagedTimelineItemSummaries without uniqById
pagedMergedSummariesWithRepeats(timelineName, oldSummaries, newSummaries) ==
  concat(oldSummaries, newSummaries)

\* addPagedTimelineItemSummaries with the page merged in sort order
pagedMergedSummariesSorted(timelineName, oldSummaries, newSummaries) ==
  uniqById(mergeArrays(oldSummaries, newSummaries))

\* addPagedTimelineItemSummaries with the page put before the stored list
pagedMergedSummariesPrepended(timelineName, oldSummaries, newSummaries) ==
  uniqById(concat(newSummaries, oldSummaries))

\* mergedSummaries of addPagedTimelineItemSummaries
pagedMergedSummaries(timelineName, oldSummaries, newSummaries) ==
  LET type == TimelineType(timelineName)
      sortedNew == IF type = "notifications"
                     THEN sortItemSummariesForNotificationBatch(newSummaries)
                     ELSE newSummaries
      merged == uniqById(concat(oldSummaries, sortedNew))
  IN IF type = "status" THEN sortItemSummariesForThread(merged, ThreadStatusId) ELSE merged

\* sortedTimelineItemSummaries of showMoreItemsForThread
threadSummariesWithPending(oldSummaries, itemSummariesToAdd) ==
  LET timelineItemIds == IdsOf(oldSummaries)
      pushed == SelectSeq(itemSummariesToAdd, LAMBDA s : s.id \notin timelineItemIds)
  IN sortItemSummariesForThread(oldSummaries \o pushed, ThreadStatusId)

\* addTimelineItemSummaries writing the old list followed by the batch
AddTimelineItemSummariesWritesUnmerged(timelineName, newSummaries, newStale) ==
  LET oldSummaries == timelineItemSummaries[timelineName]
      merged == concat(oldSummaries, newSummaries)
  IN /\ timelineItemSummaries' =
          IF ~isEqual(oldSummaries, merged)
            THEN [timelineItemSummaries EXCEPT ![timelineName] = merged]
            ELSE timelineItemSummaries
     /\ timelineItemSummariesAreStale' =
          IF timelineItemSummariesAreStale[timelineName] # newStale
            THEN [timelineItemSummariesAreStale EXCEPT ![timelineName] = newStale]
            ELSE timelineItemSummariesAreStale

\* addTimelineItemSummaries writing the stale flag only with a changed list
AddTimelineItemSummariesWritesWhenChanged(timelineName, newSummaries, newStale) ==
  LET oldSummaries == timelineItemSummaries[timelineName]
      merged == mergedSummaries(timelineName, oldSummaries, newSummaries)
  IN IF ~isEqual(oldSummaries, merged)
       THEN /\ timelineItemSummaries' = [timelineItemSummaries EXCEPT ![timelineName] = merged]
            /\ timelineItemSummariesAreStale' =
                 [timelineItemSummariesAreStale EXCEPT ![timelineName] = newStale]
       ELSE UNCHANGED <<timelineItemSummaries, timelineItemSummariesAreStale>>

\* the store writes of addTimelineItemSummaries
AddTimelineItemSummariesWrites(timelineName, newSummaries, newStale) ==
  LET oldSummaries == timelineItemSummaries[timelineName]
      merged == mergedSummaries(timelineName, oldSummaries, newSummaries)
  IN /\ timelineItemSummaries' =
          IF ~isEqual(oldSummaries, merged)
            THEN [timelineItemSummaries EXCEPT ![timelineName] = merged]
            ELSE timelineItemSummaries
     /\ timelineItemSummariesAreStale' =
          IF timelineItemSummariesAreStale[timelineName] # newStale
            THEN [timelineItemSummariesAreStale EXCEPT ![timelineName] = newStale]
            ELSE timelineItemSummariesAreStale

addTimelineItemSummaries(timelineName, newSummaries, newStale) ==
  /\ timelineName = currentTimeline
  /\ AddTimelineItemSummariesWrites(timelineName, newSummaries, newStale)
  /\ lastOp' = MergeOp("addTimelineItemSummaries", timelineName, newSummaries)
  /\ UNCHANGED <<currentTimeline, timelineItemSummariesToAdd>>

addPagedTimelineItemSummaries(timelineName, newSummaries) ==
  LET oldSummaries == timelineItemSummaries[timelineName]
      merged == pagedMergedSummaries(timelineName, oldSummaries, newSummaries)
  IN /\ timelineName = currentTimeline
     /\ timelineItemSummaries' =
          IF ~isEqual(oldSummaries, merged)
            THEN [timelineItemSummaries EXCEPT ![timelineName] = merged]
            ELSE timelineItemSummaries
     /\ lastOp' = MergeOp("addPagedTimelineItemSummaries", timelineName, newSummaries)
     /\ UNCHANGED <<currentTimeline, timelineItemSummariesToAdd, timelineItemSummariesAreStale>>

showMoreItemsForTimeline(timelineName) ==
  LET itemSummariesToAdd == SortReverse(timelineItemSummariesToAdd[timelineName])
  IN /\ timelineName = currentTimeline
     /\ TimelineType(timelineName) # "status"
     /\ AddTimelineItemSummariesWrites(timelineName, itemSummariesToAdd, FALSE)
     /\ timelineItemSummariesToAdd' = [timelineItemSummariesToAdd EXCEPT ![timelineName] = <<>>]
     /\ lastOp' = MergeOp("showMoreItemsForTimeline", timelineName, itemSummariesToAdd)
     /\ UNCHANGED currentTimeline

showMoreItemsForThread(timelineName) ==
  LET itemSummariesToAdd == timelineItemSummariesToAdd[timelineName]
  IN /\ timelineName = currentTimeline
     /\ TimelineType(timelineName) = "status"
     /\ timelineItemSummaries' = [timelineItemSummaries EXCEPT ![timelineName] =
            threadSummariesWithPending(timelineItemSummaries[timelineName], itemSummariesToAdd)]
     /\ timelineItemSummariesToAdd' = [timelineItemSummariesToAdd EXCEPT ![timelineName] = <<>>]
     /\ lastOp' = MergeOp("showMoreItemsForThread", timelineName, itemSummariesToAdd)
     /\ UNCHANGED <<currentTimeline, timelineItemSummariesAreStale>>

\* a streamed item is queued behind the "show more" header; the queue is
\* kept unique by id
addStatusesOrNotifications(timelineName, id) ==
  /\ timelineName = currentTimeline
  /\ Len(timelineItemSummariesToAdd[timelineName]) < MaxToAdd
  /\ timelineItemSummariesToAdd' = [timelineItemSummariesToAdd EXCEPT ![timelineName] =
        uniqById(concat(timelineItemSummariesToAdd[timelineName], <<Summary(id)>>))]
  /\ lastOp' = [NoOp EXCEPT !.op = "addStatusesOrNotifications"]
  /\ UNCHANGED <<currentTimeline, timelineItemSummaries, timelineItemSummariesAreStale>>

(***************************************************************************)
(* Interaction Reconciler: the store and the identifiers it is given       *)
(***************************************************************************)
Protocols == {"activitypub", "atproto"}
Kinds == {"favorited", "reblogged", "bookmarked"}

\* the status the user acts on, and the key an object argument turns into
\* when it is used as a property name
TargetId == "P"
ObjectKey == "[object Object]"
StoreKeys == {TargetId, ObjectKey}

\* the accounts of the device and the database each one opens
Accounts == {"did:plc:a", "did:plc:b", "did:plc:c"}
atprotoPdsUrls(did) == IF did = "did:plc:c" THEN "https://pds.example" ELSE "https://bsky.social"
hostname(url) == IF url = "https://pds.example" THEN "pds.example" ELSE "bsky.social"
pdsHostnameOf(did) == hostname(atprotoPdsUrls(did))
Hosts == {pdsHostnameOf(did) : did \in Accounts}

\* a test that takes every value for present
NeverFalsy(s) == FALSE

Falsy(s) == s = ""

\* the statusId argument: an id string under ActivityPub, an object
\* {uri, cid, likeUri | repostUri} under atproto
StatusIdInputs(protocol) ==
  IF protocol = "atproto"
    THEN {[type |-> "object", uri |-> u, cid |-> c, refUri |-> r] :
            u \in {TargetId, ""}, c \in {"cid", ""}, r \in {"ref", ""}}
    ELSE {[type |-> "string", uri |-> TargetId, cid |-> "", refUri |-> ""]}

StoreKey(statusId) == IF statusId.type = "object" THEN ObjectKey ELSE statusId.uri

NoPre == [flag |-> FALSE, count |-> 0]
NoStatusId == [type |-> "string", uri |-> "", cid |-> "", refUri |-> ""]
NoCall == [action |-> "none", phase |-> "idle", statusId |-> NoStatusId, desired |-> FALSE,
           option |-> FALSE, pre |-> NoPre, outcome |-> "none", steps |-> <<>>]

\* a count that is not held at 0
Unclamped(n) == n

\* Math.max(0, n)
Max0(n) == IF n < 0 THEN 0 ELSE n

\* store.setStatusFavorited / setStatusReblogged / setStatusBookmarked: the
\* flag of the keyed status is set, its count follows a change of the flag
setStatusModification(mods, kind, key, value) ==
  LET old == mods[kind][key]
      count == IF value = old.flag THEN old.count
               ELSE IF value THEN old.count + 1 ELSE Max0(old.count - 1)
  IN [mods EXCEPT ![kind][key] = [flag |-> value, count |-> count]]

setStatusFavorited(mods, key, favorited) == setStatusModification(mods, "favorited", key, favorited)
setStatusReblogged(mods, key, reblogged) == setStatusModification(mods, "reblogged", key, reblogged)
setStatusBookmarked(mods, key, bookmarked) == setStatusModification(mods, "bookmarked", key, bookmarked)

\* the update setPostLikeUri and setPostRepostUri apply to the cached status
setPostRecordUri(cached, kind, recordUri, isSet) ==
  LET status == cached[kind]
      oldIsSet == ~Falsy(status.refUri)
      count == IF isSet /\ ~oldIsSet THEN status.count + 1
               ELSE IF ~isSet /\ oldIsSet THEN Max0(status.count - 1)
               ELSE status.count
  IN [cached EXCEPT ![kind] = [flag |-> isSet, count |-> count, refUri |-> recordUri]]

setPostLikeUri(cached, likeRecordUri, isLiked) == setPostRecordUri(cached, "favorited", likeRecordUri, isLiked)
setPostRepostUri(cached, repostRecordUri, isReposted) == setPostRecordUri(cached, "reblogged", repostRecordUri, isReposted)

\* a call that returns before its first await
Returned(action, statusId, desired, option, pre, outcome) ==
  [action |-> action, phase |-> "done", statusId |-> NoStatusId, desired |-> FALSE,
   option |-> FALSE, pre |-> pre, outcome |-> outcome, steps |-> <<>>]

\* a call suspended at its network or storage await
Awaiting(action, statusId, desired, option, pre) ==
  [action |-> action, phase |-> "pending", statusId |-> statusId, desired |-> desired,
   option |-> option, pre |-> pre, outcome |-> "none", steps |-> <<>>]

\* a call that has completed; its arguments are gone with its frame
Settled(outcome) ==
  [call EXCEPT !.phase = "done", !.outcome = outcome, !.statusId = NoStatusId,
               !.desired = FALSE, !.option = FALSE, !.steps = <<>>]

(***************************************************************************)
(* setFavorited (_actions/favorite.js), setReblogged (_actions/reblog.js)  *)
(***************************************************************************)
\* the property of a cached status that holds the reference id of the user's
\* own like or repost, as the normalizer and setPostLikeUri / setPostRepostUri
\* write it
RecordUriProperty(kind) == IF kind = "favorited" THEN "myLikeUri" ELSE "myRepostUri"

\* store.getPostByUri: the cached status of the uri, as an object with the
\* property of the reference id
getPostByUri(cached, kind, uri) ==
  IF uri = TargetId THEN [p \in {RecordUriProperty(kind)} |-> cached[kind].refUri] ELSE <<>>

\* a property read: a property the object does not have reads as undefined,
\* which is falsy
GetProperty(object, name) == IF name \in DOMAIN object THEN object[name] ELSE ""

\* the optimistic update keyed by the statusId argument itself
idForStoreModificationOfArgument(statusId) == StoreKey(statusId)

\* idForStoreModification: the uri of the object under atproto, the id
\* string under ActivityPub
idForStoreModification(statusId) == statusId.uri

\* what setFavorited / setReblogged do between the validation and the await,
\* in the order of their statements: the API function is called and its
\* promise kept, the store is updated, the promise is awaited
LikeOrRepostSteps == <<"networkCall", "optimisticUpdate">>

\* the part of setFavorited / setReblogged before the network await
LikeOrRepostCalled(action, kind, statusId, value, postInStoreUri) ==
  LET pre == statusModifications[kind][TargetId]
      atproto == currentAccountProtocol = "atproto"
      recordUri == IF Falsy(statusId.refUri) THEN postInStoreUri ELSE statusId.refUri
      withRecordUri == IF atproto /\ ~value THEN [statusId EXCEPT !.refUri = recordUri] ELSE statusId
  IN /\ call.phase # "pending"
     /\ IF ~online
          THEN /\ toasts' = 1
               /\ call' = Returned(action, statusId, value, FALSE, pre, "offline")
               /\ UNCHANGED statusModifications
        ELSE IF atproto /\ (Falsy(statusId.uri) \/ Falsy(statusId.cid))
          THEN /\ toasts' = 1
               /\ call' = Returned(action, statusId, value, FALSE, pre, "missingIdentifier")
               /\ UNCHANGED statusModifications
        ELSE IF atproto /\ ~value /\ Falsy(recordUri)
          THEN /\ toasts' = 1
               /\ call' = Returned(action, statusId, value, FALSE, pre, "missingReference")
               /\ UNCHANGED statusModifications
        ELSE /\ toasts' = 0
             /\ call' = [Awaiting(action, withRecordUri, value, FALSE, pre)
                          EXCEPT !.steps = LikeOrRepostSteps]
             /\ statusModifications' =
                  setStatusModification(statusModifications, kind,
                                        idForStoreModification(statusId), value)
     /\ UNCHANGED <<online, currentAccountProtocol, cachedPost, following, postingStatus, idleTasks>>

\* the network call of setFavorited / setReblogged resolved
LikeOrRepostResolved(action, kind) ==
  /\ call.phase = "pending"
  /\ call.action = action
  /\ online
  /\ cachedPost' =
       IF currentAccountProtocol = "atproto"
         THEN setPostRecordUri(cachedPost, kind, IF call.desired THEN "ref" ELSE "", call.desired)
         ELSE cachedPost
  /\ call' = Settled("success")
  /\ UNCHANGED <<online, currentAccountProtocol, statusModifications, following, postingStatus,
                 toasts, idleTasks>>

\* the network call of setFavorited / setReblogged rejected: the catch block
LikeOrRepostRejected(action, kind) ==
  /\ call.phase = "pending"
  /\ call.action = action
  /\ toasts' = toasts + 1
  /\ statusModifications' =
       setStatusModification(statusModifications, kind, StoreKey(call.statusId), ~call.desired)
  /\ call' = Settled("networkFailure")
  /\ UNCHANGED <<online, currentAccountProtocol, cachedPost, following, postingStatus, idleTasks>>

setFavorited(statusId, favorited, postInStoreUri) ==
  LikeOrRepostCalled("setFavorited", "favorited", statusId, favorited, postInStoreUri)
setFavoritedResolved == LikeOrRepostResolved("setFavorited", "favorited")
setFavoritedRejected == LikeOrRepostRejected("setFavorited", "favorited")

setReblogged(statusId, reblogged, postInStoreUri) ==
  LikeOrRepostCalled("setReblogged", "reblogged", statusId, reblogged, postInStoreUri)
setRebloggedResolved == LikeOrRepostResolved("setReblogged", "reblogged")
setRebloggedRejected == LikeOrRepostRejected("setReblogged", "reblogged")

(***************************************************************************)
(* setStatusBookmarkedOrUnbookmarked (_actions/bookmark.js) and the        *)
(* client-side bookmarks of the store (_store/mixins/mixins.js)            *)
(***************************************************************************)
\* the part before the await: the network call under ActivityPub, the call
\* of store.addAtprotoBookmark / removeAtprotoBookmark under atproto
setStatusBookmarkedOrUnbookmarked(statusId, bookmarked) ==
  LET atproto == currentAccountProtocol = "atproto"
      pre == IF atproto THEN [flag |-> cachedPost["bookmarked"].flag, count |-> 0]
             ELSE statusModifications["bookmarked"][TargetId]
      postUri == statusId.uri
  IN /\ call.phase # "pending"
     /\ IF atproto /\ Falsy(postUri)
          THEN /\ toasts' = 1
               /\ call' = Returned("setStatusBookmarkedOrUnbookmarked", statusId, bookmarked,
                                   FALSE, pre, "missingIdentifier")
        ELSE IF atproto /\ Falsy(currentAtprotoSessionDid)
          THEN /\ toasts' = 0
               /\ call' = Returned("setStatusBookmarkedOrUnbookmarked", statusId, bookmarked,
                                   FALSE, pre, "noSession")
        ELSE /\ toasts' = 0
             /\ call' = Awaiting("setStatusBookmarkedOrUnbookmarked", statusId, bookmarked,
                                 FALSE, pre)
     /\ UNCHANGED <<online, currentAccountProtocol, statusModifications, cachedPost, following,
                    postingStatus, idleTasks>>

\* a bookmark that is written to the database of every server
addAtprotoBookmarkEverywhere(db, pdsHostname, postUri) ==
  [h \in DOMAIN db |-> db[h] \cup {postUri}]

\* database.addAtprotoBookmark / removeAtprotoBookmark
addAtprotoBookmark(db, pdsHostname, postUri) ==
  [db EXCEPT ![pdsHostname] = @ \cup {postUri}]
removeAtprotoBookmark(db, pdsHostname, postUri) ==
  [db EXCEPT ![pdsHostname] = @ \ {postUri}]

\* store.addAtprotoBookmark / removeAtprotoBookmark: the database, the uris
\* in memory and the client_isBookmarked flag of the cached status
AtprotoBookmarkWrites(postUri, add) ==
  LET pdsHostname == pdsHostnameOf(currentAtprotoSessionDid)
  IN /\ atprotoBookmarks' =
          IF add THEN addAtprotoBookmark(atprotoBookmarks, pdsHostname, postUri)
          ELSE removeAtprotoBookmark(atprotoBookmarks, pdsHostname, postUri)
     /\ atprotoBookmarkedPostUris' =
          IF add THEN atprotoBookmarkedPostUris \cup {postUri}
          ELSE atprotoBookmarkedPostUris \ {postUri}
     /\ cachedPost' = [cachedPost EXCEPT !["bookmarked"].flag = add]

\* the await resolved
setStatusBookmarkedOrUnbookmarkedResolved ==
  LET atproto == currentAccountProtocol = "atproto"
      postUri == call.statusId.uri
  IN /\ call.phase = "pending"
     /\ call.action = "setStatusBookmarkedOrUnbookmarked"
     /\ atproto \/ online
     /\ toasts' = toasts + 1
     /\ call' = Settled("success")
     /\ IF atproto
          THEN /\ AtprotoBookmarkWrites(postUri, call.desired)
               /\ UNCHANGED statusModifications
          ELSE /\ statusModifications' =
                    setStatusBookmarked(statusModifications, StoreKey(call.statusId), call.desired)
               /\ UNCHANGED <<atprotoBookmarks, atprotoBookmarkedPostUris, cachedPost>>
     /\ UNCHANGED <<online, currentAccountProtocol, following, postingStatus, idleTasks,
                    currentAtprotoSessionDid, atprotoFeedCursors, atprotoPosts,
                    timelineNextPageId, lastTimelineItemId, fetch, lastSet>>

\* the await rejected: the catch block of the action under ActivityPub, the
\* catch block of the store mixin under atproto
setStatusBookmarkedOrUnbookmarkedRejected ==
  LET atproto == currentAccountProtocol = "atproto"
  IN /\ call.phase = "pending"
     /\ call.action = "setStatusBookmarkedOrUnbookmarked"
     /\ toasts' = toasts + 1
     /\ call' = Settled(IF atproto THEN "storageFailure" ELSE "networkFailure")
     /\ statusModifications' =
          IF ~atproto
            THEN setStatusBookmarked(statusModifications, StoreKey(call.statusId), ~call.desired)
            ELSE statusModifications
     /\ UNCHANGED <<online, currentAccountProtocol, cachedPost, following, postingStatus,
                    idleTasks>>

(***************************************************************************)
(* doDeleteStatus (_actions/delete.js)                                     *)
(***************************************************************************)
\* the part before the network await; an atproto id that is not an at:// uri
\* is reported, thrown and reported again by the catch block
doDeleteStatus(id, isAtUri) ==
  LET statusId == [type |-> "string", uri |-> id, cid |-> "", refUri |-> ""]
  IN /\ call.phase # "pending"
     /\ IF currentAccountProtocol = "atproto" /\ ~isAtUri
          THEN /\ toasts' = 2
               /\ call' = Returned("doDeleteStatus", statusId, TRUE, FALSE, NoPre,
                                   "missingIdentifier")
          ELSE /\ toasts' = 0
               /\ call' = Awaiting("doDeleteStatus", statusId, TRUE, FALSE, NoPre)
     /\ UNCHANGED <<online, currentAccountProtocol, statusModifications, cachedPost, following,
                    postingStatus, idleTasks>>

\* deleteStatus of _actions/deleteStatuses.js: the local deletion is left to
\* an idle task
deleteStatus(tasks, statusId, protocol) == tasks \cup {[statusId |-> statusId, protocol |-> protocol]}

doDeleteStatusResolved ==
  /\ call.phase = "pending"
  /\ call.action = "doDeleteStatus"
  /\ online
  /\ idleTasks' = deleteStatus(idleTasks, call.statusId.uri, currentAccountProtocol)
  /\ toasts' = toasts + 1
  /\ call' = Settled("success")
  /\ UNCHANGED <<online, currentAccountProtocol, statusModifications, cachedPost, following,
                 postingStatus>>

\* doDeleteStatus with a catch block that goes on to the local deletion
doDeleteStatusRejectedThenDeleted ==
  /\ call.phase = "pending"
  /\ call.action = "doDeleteStatus"
  /\ idleTasks' = deleteStatus(idleTasks, call.statusId.uri, currentAccountProtocol)
  /\ toasts' = toasts + 1
  /\ call' = Settled("networkFailure")
  /\ UNCHANGED <<online, currentAccountProtocol, statusModifications, cachedPost, following,
                 postingStatus>>

\* the network call rejected: the catch block reports it and throws again
doDeleteStatusRejected ==
  /\ call.phase = "pending"
  /\ call.action = "doDeleteStatus"
  /\ toasts' = toasts + 1
  /\ call' = Settled("networkFailure")
  /\ UNCHANGED <<online, currentAccountProtocol, statusModifications, cachedPost, following,
                 postingStatus, idleTasks>>

(***************************************************************************)
(* setAccountFollowed (_actions/follow.js)                                 *)
(***************************************************************************)
FollowTargets == {"did:plc:b", "12345"}
isDid(id) == id \in Accounts

setAccountFollowed(accountId, follow, toastOnSuccess) ==
  LET targetIsLikelyAtproto == isDid(accountId) /\ currentAccountProtocol = "atproto"
      statusId == [type |-> "string", uri |-> accountId, cid |-> "", refUri |-> ""]
  IN /\ call.phase # "pending"
     /\ IF targetIsLikelyAtproto /\ Falsy(currentAtprotoSessionDid)
          THEN /\ toasts' = 1
               /\ call' = Returned("setAccountFollowed", statusId, follow, toastOnSuccess,
                                   NoPre, "missingIdentifier")
          ELSE /\ toasts' = 0
               /\ call' = Awaiting("setAccountFollowed", statusId, follow, toastOnSuccess, NoPre)
     /\ UNCHANGED <<online, currentAccountProtocol, statusModifications, cachedPost, following,
                    postingStatus, idleTasks>>

setAccountFollowedResolved ==
  /\ call.phase = "pending"
  /\ call.action = "setAccountFollowed"
  /\ online
  /\ following' = call.desired
  /\ toasts' = IF call.option THEN toasts + 1 ELSE toasts
  /\ call' = Settled("success")
  /\ UNCHANGED <<online, currentAccountProtocol, statusModifications, cachedPost,
                 postingStatus, idleTasks>>

\* a rejected network call, or under atproto an unfollow whose follow record
\* uri is not in the fetched profile
setAccountFollowedRejected ==
  /\ call.phase = "pending"
  /\ call.action = "setAccountFollowed"
  /\ toasts' = toasts + 1
  /\ \E outcome \in {"networkFailure", "missingIdentifier"} :
       /\ outcome = "missingIdentifier" =>
            isDid(call.statusId.uri) /\ currentAccountProtocol = "atproto" /\ ~call.desired
       /\ call' = Settled(outcome)
  /\ UNCHANGED <<online, currentAccountProtocol, statusModifications, cachedPost, following,
                 postingStatus, idleTasks>>

(***************************************************************************)
(* postStatus (_actions/compose.js)                                        *)
(***************************************************************************)
MaxMediaFiles == 1
NewPostId == MaxId

\* the part before the first await; call.option holds editId
postStatus(editId) ==
  /\ call.phase # "pending"
  /\ IF ~online
       THEN /\ toasts' = 1
            /\ call' = Returned("postStatus", NoStatusId, TRUE, editId, NoPre, "offline")
            /\ UNCHANGED postingStatus
       ELSE /\ toasts' = 0
            /\ call' = Awaiting("postStatus", NoStatusId, TRUE, editId, NoPre)
            /\ postingStatus' = TRUE
  /\ UNCHANGED <<online, currentAccountProtocol, statusModifications, cachedPost, following,
                 idleTasks>>

\* addStatusOrNotification(currentInstance, 'home', status)
addStatusOrNotification(toAdd, timelineName, id) ==
  [toAdd EXCEPT ![timelineName] = uniqById(concat(@, <<Summary(id)>>))]

\* the rest of the try block without a rejection; failedUploads media files
\* of an atproto post fail to upload, each failure is reported and skipped
postStatusResolved(failedUploads) ==
  LET atproto == currentAccountProtocol = "atproto"
  IN /\ call.phase = "pending"
     /\ call.action = "postStatus"
     /\ ~atproto => failedUploads = 0
     /\ postingStatus' = FALSE
     /\ IF atproto /\ call.option
          THEN /\ toasts' = toasts + 1
               /\ call' = Settled("unsupported")
               /\ UNCHANGED timelineItemSummariesToAdd
          ELSE /\ toasts' = toasts + failedUploads
               /\ call' = Settled("success")
               /\ timelineItemSummariesToAdd' =
                    IF call.option THEN timelineItemSummariesToAdd
                    ELSE addStatusOrNotification(timelineItemSummariesToAdd, "home", NewPostId)
     /\ UNCHANGED <<online, currentAccountProtocol, statusModifications, cachedPost, following,
                    idleTasks>>

\* a network call of the try block rejected: the catch block
postStatusRejected(failedUploads) ==
  LET atproto == currentAccountProtocol = "atproto"
  IN /\ call.phase = "pending"
     /\ call.action = "postStatus"
     /\ ~(atproto /\ call.option)
     /\ ~atproto => failedUploads = 0
     /\ postingStatus' = FALSE
     /\ toasts' = toasts + failedUploads + 1
     /\ call' = Settled("networkFailure")
     /\ UNCHANGED <<online, currentAccountProtocol, statusModifications, cachedPost, following,
                    idleTasks>>

(***************************************************************************)
(* Local store: feed cursors, cached posts and bookmarks of the atproto    *)
(* databases (_api/instance.js, _database/atprotoBookmarks.js,             *)
(* _database/atprotoPosts.js), one database per PDS host name              *)
(***************************************************************************)
Undefined == "undefined"
CursorTokens == {"c1"}
CursorValues == CursorTokens \cup {Undefined}
IsString(value) == value # Undefined

\* the timelines fetched: the home feed, a feed given by its uri, and the
\* notifications, a timeline the feed map of the atproto branch does not hold
CursorTimelines == {"home", "at://feed", "notifications"}
StartsWithAt(timelineName) == timelineName = "at://feed"

\* atprotoFeedIdentifier of fetchTimelineItemsFromNetwork: the key of the
\* cursor record of a timeline
atprotoFeedIdentifier(timelineName) ==
  IF timelineName = "home" THEN "home_following"
  ELSE IF timelineName = "federated"
    THEN "at://did:plc:z72i7hdynmk6r22z27h6tvur/app.bsky.feed.generator/whats-hot"
  ELSE IF StartsWithAt(timelineName) THEN timelineName
  ELSE "home_following"

\* feedIdentifier of storeFreshTimelineItemsInDatabase
feedIdentifier(timelineName) == IF timelineName = "home" THEN "home_following" ELSE timelineName

\* cloneForStorage: the fields whose value is undefined are not stored
cloneForStorage(record) == [k \in {f \in DOMAIN record : record[f] # Undefined} |-> record[k]]

\* IDBObjectStore.put of a record under the key feedUri
PutRecord(objectStore, key, record) ==
  [k \in DOMAIN objectStore \cup {key} |-> IF k = key THEN record ELSE objectStore[k]]

\* setAtprotoFeedCursor without a write when the cursor is undefined
setAtprotoFeedCursorWhenDefined(cursors, pdsHostname, feedUri, cursor) ==
  IF cursor = Undefined THEN cursors
  ELSE [cursors EXCEPT ![pdsHostname] =
          PutRecord(@, feedUri, cloneForStorage([feedUri |-> feedUri, cursor |-> cursor]))]

setAtprotoFeedCursor(cursors, pdsHostname, feedUri, cursor) ==
  [cursors EXCEPT ![pdsHostname] =
     PutRecord(@, feedUri, cloneForStorage([feedUri |-> feedUri, cursor |-> cursor]))]

\* the cursor write of setAtprotoFeedTimeline
setAtprotoFeedTimeline(cursors, pdsHostname, feedUri, nextCursor) ==
  IF nextCursor # Undefined
    THEN [cursors EXCEPT ![pdsHostname] =
            PutRecord(@, feedUri, [feedUri |-> feedUri, cursor |-> nextCursor])]
    ELSE cursors

getAtprotoFeedCursor(cursors, pdsHostname, feedUri) ==
  LET objectStore == cursors[pdsHostname]
  IN IF feedUri \in DOMAIN objectStore
       THEN IF "cursor" \in DOMAIN objectStore[feedUri]
              THEN objectStore[feedUri].cursor ELSE Undefined
       ELSE Undefined

\* setMultipleAtprotoPosts
setMultipleAtprotoPosts(posts, pdsHostname, uris) == [posts EXCEPT ![pdsHostname] = @ \cup uris]

\* database.getAllAtprotoBookmarks
getAllAtprotoBookmarks(db, pdsHostname) == db[pdsHostname]

\* no status, no notification and no timeline reference stored
NoDatabase == [statuses |-> <<>>, notifications |-> <<>>, atprotoTimelines |-> {},
               timelines |-> [t \in TimelineNames |-> {}], inReplyTo |-> <<>>]

NoFetch == [phase |-> "idle", did |-> "", timeline |-> "home", cursorToUse |-> Undefined,
            cold |-> FALSE]
NoSet == [count |-> 0, did |-> "", timeline |-> "home", token |-> Undefined,
          restarted |-> FALSE]

\* the cursor writes followed in one run
MaxSets == 2

\* atprotoLogin: the agent is pointed at the PDS of the account and the
\* account becomes the current session
atprotoLogin(did) ==
  /\ fetch.phase # "pending"
  /\ did # currentAtprotoSessionDid
  /\ currentAtprotoSessionDid' = did
  /\ UNCHANGED <<atprotoBookmarks, atprotoBookmarkedPostUris, atprotoFeedCursors,
                 timelineNextPageId, lastTimelineItemId, atprotoPosts, fetch, lastSet>>

\* a reload of the page: what the store held in memory is gone, the
\* databases stay, atprotoResumeSession resumes the session
coldRestart ==
  /\ currentAtprotoSessionDid # ""
  /\ atprotoBookmarkedPostUris' = {}
  /\ timelineNextPageId' = [t \in CursorTimelines |-> Undefined]
  /\ lastTimelineItemId' = Undefined
  /\ fetch' = NoFetch
  /\ lastSet' = [lastSet EXCEPT !.restarted = lastSet.count > 0]
  /\ UNCHANGED <<currentAtprotoSessionDid, atprotoBookmarks, atprotoFeedCursors, atprotoPosts>>

\* fetchTimelineItemsFromNetwork up to the network await: the cursor to
\* fetch with is the one in memory, or on a first fetch the stored one
fetchTimelineItemsFromNetwork(timelineName) ==
  LET pdsHostname == pdsHostnameOf(currentAtprotoSessionDid)
      dbCursor == getAtprotoFeedCursor(atprotoFeedCursors, pdsHostname,
                                       atprotoFeedIdentifier(timelineName))
      firstFetch == ~IsString(lastTimelineItemId)
      cursorToUse == IF firstFetch /\ IsString(dbCursor) THEN dbCursor ELSE lastTimelineItemId
  IN /\ currentAtprotoSessionDid # ""
     /\ fetch.phase # "pending"
     /\ fetch' = [phase |-> "pending", did |-> currentAtprotoSessionDid,
                  timeline |-> timelineName, cursorToUse |-> cursorToUse, cold |-> firstFetch]
     /\ UNCHANGED <<currentAtprotoSessionDid, atprotoBookmarks, atprotoBookmarkedPostUris,
                    atprotoFeedCursors, timelineNextPageId, lastTimelineItemId, atprotoPosts,
                    lastSet>>

\* the network call resolved with the posts uris and the cursor newApiCursor:
\* the rest of fetchTimelineItemsFromNetwork, then
\* storeFreshTimelineItemsInDatabase and the merge of the items
fetchTimelineItemsFromNetworkResolved(uris, newApiCursor) ==
  LET pdsHostname == pdsHostnameOf(currentAtprotoSessionDid)
      timelineName == fetch.timeline
      withCursor == setAtprotoFeedCursor(atprotoFeedCursors, pdsHostname,
                                         atprotoFeedIdentifier(timelineName), newApiCursor)
      atprotoCursor == newApiCursor
  IN /\ fetch.phase = "pending"
     /\ lastSet.count < MaxSets
     /\ timelineNextPageId' = [timelineNextPageId EXCEPT ![timelineName] = newApiCursor]
     /\ atprotoFeedCursors' = setAtprotoFeedTimeline(withCursor, pdsHostname,
                                                    feedIdentifier(timelineName), atprotoCursor)
     /\ atprotoPosts' = setMultipleAtprotoPosts(atprotoPosts, pdsHostname, uris)
     /\ lastTimelineItemId' = IF uris = {} THEN lastTimelineItemId ELSE TargetId
     /\ fetch' = NoFetch
     /\ lastSet' = [count |-> lastSet.count + 1, did |-> currentAtprotoSessionDid,
                    timeline |-> timelineName, token |-> newApiCursor, restarted |-> FALSE]
     /\ UNCHANGED <<currentAtprotoSessionDid, atprotoBookmarks, atprotoBookmarkedPostUris>>

\* the network call rejected: fetchTimelineItems falls back to the cache
fetchTimelineItemsFromNetworkRejected ==
  /\ fetch.phase = "pending"
  /\ fetch' = NoFetch
  /\ UNCHANGED <<currentAtprotoSessionDid, atprotoBookmarks, atprotoBookmarkedPostUris,
                 atprotoFeedCursors, timelineNextPageId, lastTimelineItemId, atprotoPosts,
                 lastSet>>

\* store.loadAtprotoBookmarks
loadAtprotoBookmarks ==
  /\ atprotoBookmarkedPostUris' =
       IF Falsy(currentAtprotoSessionDid) THEN {}
       ELSE getAllAtprotoBookmarks(atprotoBookmarks, pdsHostnameOf(currentAtprotoSessionDid))
  /\ UNCHANGED <<currentAtprotoSessionDid, atprotoBookmarks, atprotoFeedCursors,
                 timelineNextPageId, lastTimelineItemId, atprotoPosts, fetch, lastSet>>

(***************************************************************************)
(* Normalizer (_api_atproto/timelines.js) and the paged fetch              *)
(***************************************************************************)
\* the posts of the feed, by uri, and the accounts that repost them
PostUris == {"at://p1", "at://p2"}
Reposters == {"did:plc:b", "did:plc:c"}
NoReason == ""
NoReblog == ""

\* a FeedViewPost: a post and, when the item is a repost, reason.by.did
FeedViewPosts == [post : PostUris, reason : {NoReason} \cup Reposters]

\* the feed items followed in one run
MaxFeedLen == 3

RECURSIVE FeedPagesOfLen(_)
FeedPagesOfLen(n) ==
  IF n = 0 THEN {<<>>}
  ELSE {<<f>> \o rest : f \in FeedViewPosts, rest \in FeedPagesOfLen(n - 1)}

\* the non-empty pages of at most n items
FeedPages(n) == UNION {FeedPagesOfLen(k) : k \in 1..n}

\* transformAtprotoPostToEnaforeStatus: the id is the uri of the post; a
\* repost nests the transformed post under reblog, names the reposter in
\* reblogged_by and takes the time of the repost as createdAt
transformAtprotoPostToEnaforeStatus(feedViewPost) ==
  LET post == feedViewPost.post
      reason == feedViewPost.reason
      enoStatus == [id |-> post, uri |-> post, createdAt |-> post,
                    reblog |-> NoReblog, reblogged_by |-> NoReason]
  IN IF reason # NoReason
       THEN [enoStatus EXCEPT !.reblog = post, !.reblogged_by = reason, !.createdAt = reason]
       ELSE enoStatus

\* the summary of a status in a timeline list
timelineItemToSummary(item) == Summary(item.id)

\* the ATPROTO_TIMELINES_STORE entries setAtprotoFeedTimeline puts for a page:
\* key feedUri, createdAt, uri and value uri
atprotoTimelineEntries(feedUri, posts) ==
  {[feedUri |-> feedUri, createdAt |-> posts[i].createdAt, uri |-> posts[i].uri,
    value |-> posts[i].uri] : i \in DOMAIN posts}

\* fetchPagedItems under atproto, the agent returning the page and the
\* cursor newNextPageId: getTimeline transforms the page, the cursor is put
\* in the database and in the store, storeFreshTimelineItemsInDatabase
\* stores the posts and the feed entries, addPagedTimelineItems merges
fetchPagedItems(timelineName, page, newNextPageId) ==
  LET pdsHostname == pdsHostnameOf(currentAtprotoSessionDid)
      items == [i \in DOMAIN page |-> transformAtprotoPostToEnaforeStatus(page[i])]
      withCursor == setAtprotoFeedCursor(atprotoFeedCursors, pdsHostname,
                                         atprotoFeedIdentifier(timelineName), newNextPageId)
      newSummaries == [i \in DOMAIN items |-> timelineItemToSummary(items[i])]
      oldSummaries == timelineItemSummaries[timelineName]
      merged == pagedMergedSummaries(timelineName, oldSummaries, newSummaries)
  IN /\ currentAccountProtocol = "atproto"
     /\ currentAtprotoSessionDid # ""
     /\ timelineName = currentTimeline
     /\ Len(feed) + Len(page) <= MaxFeedLen
     /\ feed' = feed \o page
     /\ timelineNextPageId' = [timelineNextPageId EXCEPT ![timelineName] = newNextPageId]
     /\ atprotoFeedCursors' = setAtprotoFeedTimeline(withCursor, pdsHostname,
                                                    feedIdentifier(timelineName), newNextPageId)
     /\ atprotoPosts' = setMultipleAtprotoPosts(atprotoPosts, pdsHostname,
                                                {items[i].uri : i \in DOMAIN items})
     /\ database' = [database EXCEPT !.atprotoTimelines =
                       @ \cup atprotoTimelineEntries(feedIdentifier(timelineName), items)]
     /\ timelineItemSummaries' =
          IF ~isEqual(oldSummaries, merged)
            THEN [timelineItemSummaries EXCEPT ![timelineName] = merged]
            ELSE timelineItemSummaries
     /\ lastTimelineItemId' = merged[Len(merged)].id
     /\ lastSet' = [count |-> IF lastSet.count < MaxSets THEN lastSet.count + 1
                              ELSE lastSet.count,
                    did |-> currentAtprotoSessionDid, timeline |-> timelineName,
                    token |-> newNextPageId, restarted |-> FALSE]
     /\ lastOp' = [NoOp EXCEPT !.op = "fetchPagedItems"]
     /\ UNCHANGED <<currentTimeline, timelineItemSummariesToAdd, timelineItemSummariesAreStale,
                    currentAtprotoSessionDid, atprotoBookmarks, atprotoBookmarkedPostUris,
                    fetch, atprotoUnreadNotificationCount>>

(***************************************************************************)
(* Local deletion (_actions/deleteStatuses.js)                             *)
(***************************************************************************)
\* the notifications of the ActivityPub database
MaxNotifications == 2
NotificationIds == 1..MaxNotifications

\* no reblog: the status is an original
NotAReblog == 0

\* the reblog relations of the stored statuses: a reblog is newer than the
\* status it reblogs, and what it reblogs is an original
ReblogRelations ==
  {f \in [Ids -> {NotAReblog} \cup Ids] :
     \A s \in Ids : f[s] # NotAReblog => (f[s] < s /\ f[f[s]] = NotAReblog)}

\* statuses.js: the stored statuses that reblog statusId
getIdsThatRebloggedThisStatus(db, statusId) ==
  {s \in DOMAIN db.statuses : db.statuses[s] = statusId}

\* statuses.js: the stored notifications about one of the statuses
getNotificationIdsForStatuses(db, statusIds) ==
  {n \in DOMAIN db.notifications : db.notifications[n] \in statusIds}

\* database.deleteStatusesAndNotifications
deleteStatusesAndNotifications(db, statusIdsToDelete, notificationIdsToDelete) ==
  [db EXCEPT
     !.statuses = [s \in DOMAIN db.statuses \ statusIdsToDelete |-> db.statuses[s]],
     !.notifications =
        [n \in DOMAIN db.notifications \ notificationIdsToDelete |-> db.notifications[n]]]

\* the two keys of the timeline data of the store
TimelineData ==
  [timelineItemSummaries |-> timelineItemSummaries,
   timelineItemSummariesToAdd |-> timelineItemSummariesToAdd]

\* filterItemIdsFromTimelines: under both keys, the lists of the timelines the
\* filter names keep the summaries whose id is not deleted
filterItemIdsFromTimelines(timelineData, notificationTimelines, idsToDelete) ==
  [key \in DOMAIN timelineData |->
     [timelineName \in DOMAIN timelineData[key] |->
        IF (timelineName = "notifications") = notificationTimelines
          THEN SelectSeq(timelineData[key][timelineName], LAMBDA s : s.id \notin idsToDelete)
          ELSE timelineData[key][timelineName]]]

deleteStatusIdsFromStore(timelineData, idsToDelete) ==
  filterItemIdsFromTimelines(timelineData, FALSE, idsToDelete)

\* deleteNotificationIdsFromStore leaving the notifications where they are
deleteNotificationIdsFromStoreSkipped(timelineData, idsToDelete) == timelineData

deleteNotificationIdsFromStore(timelineData, idsToDelete) ==
  filterItemIdsFromTimelines(timelineData, TRUE, idsToDelete)

\* database.deleteAtprotoPost: the post, and the feed entries whose value or
\* key ends with its uri
deleteAtprotoPost(posts, pdsHostname, postUri) ==
  [posts EXCEPT ![pdsHostname] = @ \ {postUri}]

deleteAtprotoTimelineEntries(db, postUri) ==
  [db EXCEPT !.atprotoTimelines = {e \in @ : e.value # postUri /\ e.uri # postUri}]

\* the record of a local deletion: what it took out of the lists
DeleteOp(task, after) ==
  [NoOp EXCEPT !.op = "doDeleteStatus"] @@
  [protocol |-> task.protocol, statusId |-> task.statusId,
   removedStatusIds |->
     UNION {IdsOf(timelineItemSummaries[t]) \ IdsOf(after.timelineItemSummaries[t])
              : t \in TimelineNames \ {"notifications"}},
   removedNotificationIds |->
     IdsOf(timelineItemSummaries["notifications"])
       \ IdsOf(after.timelineItemSummaries["notifications"])]

\* the idle task of deleteStatus: doDeleteStatus of deleteStatuses.js
doDeleteStatusLocally(task) ==
  LET statusId == task.statusId
      rebloggedIds == getIdsThatRebloggedThisStatus(database, statusId)
      statusIdsToDelete == {statusId} \cup rebloggedIds
      notificationIdsToDelete == getNotificationIdsForStatuses(database, statusIdsToDelete)
      after ==
        IF task.protocol = "atproto"
          THEN deleteStatusIdsFromStore(TimelineData, {statusId})
          ELSE deleteNotificationIdsFromStore(
                 deleteStatusIdsFromStore(TimelineData, statusIdsToDelete),
                 notificationIdsToDelete)
  IN /\ task \in idleTasks
     /\ idleTasks' = idleTasks \ {task}
     /\ timelineItemSummaries' = after.timelineItemSummaries
     /\ timelineItemSummariesToAdd' = after.timelineItemSummariesToAdd
     /\ IF task.protocol = "atproto"
          THEN /\ atprotoPosts' = deleteAtprotoPost(atprotoPosts,
                                     pdsHostnameOf(currentAtprotoSessionDid), statusId)
               /\ database' = deleteAtprotoTimelineEntries(database, statusId)
          ELSE /\ database' = deleteStatusesAndNotifications(database, statusIdsToDelete,
                                                            notificationIdsToDelete)
               /\ UNCHANGED atprotoPosts
     /\ lastOp' = DeleteOp(task, after)
     /\ UNCHANGED <<currentTimeline, timelineItemSummariesAreStale>>

NoIdem == [phase |-> 0, op |-> "none", batch |-> <<>>, once |-> <<>>]

(***************************************************************************)
(* The user actions as one system                                          *)
(***************************************************************************)
MaxCount == 1

\* the flag and count a status can have before an action; the normalizer
\* takes the flag from the viewer state and reads a count the server left
\* out as 0, so a status the user has liked can count 0
PreStates == {[flag |-> f, count |-> c] : f \in BOOLEAN, c \in 0..MaxCount}

CachedOf(pre) == [flag |-> pre.flag, count |-> pre.count,
                  refUri |-> IF pre.flag THEN "ref" ELSE ""]

MutQuiet ==
  /\ online = TRUE
  /\ currentAccountProtocol = "activitypub"
  /\ statusModifications = [k \in Kinds |-> [key \in StoreKeys |-> NoPre]]
  /\ cachedPost = [k \in Kinds |-> CachedOf(NoPre)]
  /\ following = FALSE
  /\ postingStatus = FALSE
  /\ call = NoCall
  /\ toasts = 0
  /\ idleTasks = {}

DbQuiet ==
  /\ currentAtprotoSessionDid = ""
  /\ atprotoBookmarks = [h \in Hosts |-> {}]
  /\ atprotoBookmarkedPostUris = {}
  /\ atprotoFeedCursors = [h \in Hosts |-> <<>>]
  /\ atprotoPosts = [h \in Hosts |-> {}]
  /\ timelineNextPageId = [t \in CursorTimelines |-> Undefined]
  /\ lastTimelineItemId = Undefined
  /\ fetch = NoFetch
  /\ lastSet = NoSet

CacheQuiet ==
  /\ feed = <<>>
  /\ atprotoUnreadNotificationCount = 0
  /\ database = NoDatabase

\* the store after construction (_store/store.js): no session, no instance
NoInstance == ""
StoreQuiet ==
  /\ isAtprotoSessionActive = FALSE
  /\ currentInstance = NoInstance
  /\ atprotoSessions = {}
  /\ agentSession = ""
  /\ atprotoNotificationsError = ""
  /\ atprotoNotificationsCursor = Undefined
  /\ atprotoBookmarksList = <<>>
  /\ atprotoBookmarkRecords = <<>>
  /\ runningUpdate = {}

RestInit == MutQuiet /\ DbQuiet /\ CacheQuiet /\ StoreQuiet

MutInit ==
  /\ currentTimeline = "home"
  /\ timelineItemSummaries = [t \in TimelineNames |-> <<>>]
  /\ timelineItemSummariesToAdd = [t \in TimelineNames |-> <<>>]
  /\ timelineItemSummariesAreStale = [t \in TimelineNames |-> FALSE]
  /\ lastOp = NoOp
  /\ idem = NoIdem
  /\ StoreQuiet
  /\ online \in BOOLEAN
  /\ currentAccountProtocol \in Protocols
  /\ \E p \in PreStates :
       LET pre == [k \in Kinds |-> p] IN
       /\ statusModifications =
            [k \in Kinds |-> [key \in StoreKeys |-> IF key = TargetId THEN pre[k] ELSE NoPre]]
       /\ cachedPost = [k \in Kinds |-> CachedOf(pre[k])]
       /\ currentAtprotoSessionDid =
            IF currentAccountProtocol = "atproto" THEN "did:plc:a" ELSE ""
       /\ LET bookmarked == IF currentAccountProtocol = "atproto" /\ pre["bookmarked"].flag
                              THEN {TargetId} ELSE {}
          IN /\ atprotoBookmarks =
                  [h \in Hosts |-> IF h = pdsHostnameOf("did:plc:a") THEN bookmarked ELSE {}]
             /\ atprotoBookmarkedPostUris = bookmarked
  /\ atprotoFeedCursors = [h \in Hosts |-> <<>>]
  /\ atprotoPosts = [h \in Hosts |-> {}]
  /\ timelineNextPageId = [t \in CursorTimelines |-> Undefined]
  /\ lastTimelineItemId = Undefined
  /\ fetch = NoFetch
  /\ lastSet = NoSet
  /\ following = FALSE
  /\ postingStatus = FALSE
  /\ call = NoCall
  /\ toasts = 0
  /\ idleTasks = {}
  /\ CacheQuiet

notMutVars == <<mergeVars, idem, storeVars, dbVars, cacheVars>>

Favorite ==
  /\ \E statusId \in StatusIdInputs(currentAccountProtocol) :
       \E favorited \in BOOLEAN :
         setFavorited(statusId, favorited,
                      GetProperty(getPostByUri(cachedPost, "favorited", statusId.uri),
                                  "my_like_uri"))
  /\ UNCHANGED notMutVars

FavoriteResolved == setFavoritedResolved /\ UNCHANGED notMutVars
FavoriteRejected == setFavoritedRejected /\ UNCHANGED notMutVars

Reblog ==
  /\ \E statusId \in StatusIdInputs(currentAccountProtocol) :
       \E reblogged \in BOOLEAN :
         setReblogged(statusId, reblogged,
                      GetProperty(getPostByUri(cachedPost, "reblogged", statusId.uri),
                                  "my_repost_uri"))
  /\ UNCHANGED notMutVars

ReblogResolved == setRebloggedResolved /\ UNCHANGED notMutVars
ReblogRejected == setRebloggedRejected /\ UNCHANGED notMutVars

Bookmark ==
  /\ \E statusId \in StatusIdInputs(currentAccountProtocol) : \E bookmarked \in BOOLEAN :
       setStatusBookmarkedOrUnbookmarked(statusId, bookmarked)
  /\ UNCHANGED notMutVars

BookmarkResolved ==
  setStatusBookmarkedOrUnbookmarkedResolved /\ UNCHANGED <<mergeVars, idem, storeVars, cacheVars>>
BookmarkRejected == setStatusBookmarkedOrUnbookmarkedRejected /\ UNCHANGED notMutVars

Delete ==
  /\ \E isAtUri \in BOOLEAN : doDeleteStatus(TargetId, isAtUri)
  /\ UNCHANGED notMutVars

DeleteResolved == doDeleteStatusResolved /\ UNCHANGED notMutVars
DeleteRejected == doDeleteStatusRejected /\ UNCHANGED notMutVars

Follow ==
  /\ \E accountId \in FollowTargets : \E follow \in BOOLEAN : \E toastOnSuccess \in BOOLEAN :
       setAccountFollowed(accountId, follow, toastOnSuccess)
  /\ UNCHANGED notMutVars

FollowResolved == setAccountFollowedResolved /\ UNCHANGED notMutVars
FollowRejected == setAccountFollowedRejected /\ UNCHANGED notMutVars

Post ==
  /\ \E editId \in BOOLEAN : postStatus(editId)
  /\ UNCHANGED notMutVars

PostResolved ==
  /\ \E failedUploads \in 0..MaxMediaFiles : postStatusResolved(failedUploads)
  /\ UNCHANGED <<currentTimeline, timelineItemSummaries, timelineItemSummariesAreStale, lastOp,
                 idem, storeVars, dbVars, cacheVars>>

PostRejected ==
  /\ \E failedUploads \in 0..MaxMediaFiles : postStatusRejected(failedUploads)
  /\ UNCHANGED notMutVars

MutNext ==
  \/ Favorite \/ FavoriteResolved \/ FavoriteRejected
  \/ Reblog \/ ReblogResolved \/ ReblogRejected
  \/ Bookmark \/ BookmarkResolved \/ BookmarkRejected
  \/ Delete \/ DeleteResolved \/ DeleteRejected
  \/ Follow \/ FollowResolved \/ FollowRejected
  \/ Post \/ PostResolved \/ PostRejected

SpecMutate == MutInit /\ [][MutNext]_vars

CallKind(action) ==
  IF action = "setFavorited" THEN "favorited"
  ELSE IF action = "setReblogged" THEN "reblogged" ELSE "bookmarked"

MergeInit ==
  /\ currentTimeline \in TimelineNames
  /\ timelineItemSummaries = [t \in TimelineNames |-> <<>>]
  /\ timelineItemSummariesToAdd = [t \in TimelineNames |-> <<>>]
  /\ timelineItemSummariesAreStale = [t \in TimelineNames |-> FALSE]
  /\ lastOp = NoOp

(***************************************************************************)
(* The accounts of one device over the local store                         *)
(***************************************************************************)
StoreInit ==
  /\ MergeInit
  /\ currentTimeline = "home"
  /\ idem = NoIdem
  /\ StoreQuiet
  /\ online = TRUE
  /\ currentAccountProtocol = "atproto"
  /\ statusModifications = [k \in Kinds |-> [key \in StoreKeys |-> NoPre]]
  /\ cachedPost = [k \in Kinds |-> CachedOf(NoPre)]
  /\ following = FALSE
  /\ postingStatus = FALSE
  /\ call = NoCall
  /\ toasts = 0
  /\ idleTasks = {}
  /\ currentAtprotoSessionDid \in Accounts
  /\ atprotoBookmarks = [h \in Hosts |-> {}]
  /\ atprotoBookmarkedPostUris = {}
  /\ atprotoFeedCursors = [h \in Hosts |-> <<>>]
  /\ atprotoPosts = [h \in Hosts |-> {}]
  /\ timelineNextPageId = [t \in CursorTimelines |-> Undefined]
  /\ lastTimelineItemId = Undefined
  /\ fetch = NoFetch
  /\ lastSet = NoSet
  /\ CacheQuiet

notDbVars == <<mergeVars, idem, storeVars, mutVars, cacheVars>>

Login == (\E did \in Accounts : atprotoLogin(did)) /\ UNCHANGED notDbVars
Restart == coldRestart /\ UNCHANGED notDbVars
FetchTimeline ==
  /\ \E timelineName \in CursorTimelines : fetchTimelineItemsFromNetwork(timelineName)
  /\ UNCHANGED notDbVars
FetchTimelineResolved ==
  /\ \E uris \in SUBSET {TargetId} : \E newApiCursor \in CursorValues :
       fetchTimelineItemsFromNetworkResolved(uris, newApiCursor)
  /\ UNCHANGED notDbVars
FetchTimelineRejected == fetchTimelineItemsFromNetworkRejected /\ UNCHANGED notDbVars

CursorNext ==
  \/ Login \/ Restart
  \/ FetchTimeline \/ FetchTimelineResolved \/ FetchTimelineRejected

SpecCursor == StoreInit /\ [][CursorNext]_vars

\* the store mixins called on the post of the bookmarks page
LoadBookmarks == loadAtprotoBookmarks /\ UNCHANGED notDbVars
StoreBookmark ==
  /\ \E add \in BOOLEAN : AtprotoBookmarkWrites(TargetId, add)
  /\ toasts' = 1
  /\ UNCHANGED <<mergeVars, idem, storeVars, online, currentAccountProtocol, statusModifications,
                 following, postingStatus, call, idleTasks, currentAtprotoSessionDid,
                 atprotoFeedCursors, atprotoPosts, timelineNextPageId, lastTimelineItemId,
                 fetch, lastSet, cacheVars>>
FetchHome == fetchTimelineItemsFromNetwork("home") /\ UNCHANGED notDbVars
FetchHomeResolved ==
  /\ fetchTimelineItemsFromNetworkResolved({TargetId}, "c1")
  /\ UNCHANGED notDbVars

StoreNext ==
  \/ Login \/ Restart \/ LoadBookmarks \/ StoreBookmark \/ FetchHome \/ FetchHomeResolved

SpecStore == StoreInit /\ [][StoreNext]_vars

(***************************************************************************)
(* The normalizer under paged fetches                                      *)
(***************************************************************************)
NormalizeInit ==
  /\ StoreInit
  /\ currentAtprotoSessionDid = "did:plc:a"

FetchPaged ==
  /\ \E page \in FeedPages(MaxFeedLen) : \E newNextPageId \in CursorValues :
       fetchPagedItems("home", page, newNextPageId)
  /\ UNCHANGED <<idem, storeVars, mutVars>>

NormalizeNext == FetchPaged

SpecNormalize == NormalizeInit /\ [][NormalizeNext]_vars

(***************************************************************************)
(* Loading more at the bottom of a paged timeline                          *)
(***************************************************************************)
\* an older post of the feed, below the posts of the first pages
OlderPostUri == "at://p3"

RECURSIVE PagesOfLen(_, _)
PagesOfLen(items, n) ==
  IF n = 0 THEN {<<>>}
  ELSE {<<f>> \o rest : f \in items, rest \in PagesOfLen(items, n - 1)}

\* the non-empty pages the agent can return for the feed
LoadMorePages ==
  UNION {PagesOfLen([post : PostUris \cup {OlderPostUri}, reason : {NoReason} \cup Reposters], k) :
           k \in 1..MaxFeedLen}

\* the keys of storeVars other than runningUpdate
sessionVars == <<isAtprotoSessionActive, currentInstance, atprotoSessions, agentSession,
                 atprotoNotificationsError, atprotoNotificationsCursor, atprotoBookmarksList,
                 atprotoBookmarkRecords>>

\* runningUpdate of the store once fetchMoreItemsAtBottomOfTimeline has
\* ended: it is set to true before the fetch is awaited and to false by the
\* statement after the await, which a fetch that throws does not reach
runningUpdateAfter(timelineName, threw) ==
  IF threw THEN runningUpdate \cup {timelineName} ELSE runningUpdate \ {timelineName}

\* fetchMoreItemsAtBottomOfTimeline on a timeline that is fetched in pages:
\* fetchTimelineItemsAndPossiblyFallBack calls fetchPagedItems, which asks
\* for the page after timelineNextPageId
fetchMoreItemsAtBottomOfTimeline(timelineName) ==
  /\ \E page \in LoadMorePages : \E newNextPageId \in CursorValues :
       fetchPagedItems(timelineName, page, newNextPageId)
  /\ runningUpdate' = runningUpdateAfter(timelineName, FALSE)

FetchMoreItemsAtBottom ==
  /\ fetchMoreItemsAtBottomOfTimeline("home")
  /\ UNCHANGED <<idem, sessionVars, mutVars>>

LoadMoreNext == FetchMoreItemsAtBottom

SpecLoadMore == NormalizeInit /\ [][LoadMoreNext]_vars

(***************************************************************************)
(* Fetching a timeline with the cache to fall back on                      *)
(***************************************************************************)
\* database.getTimeline: the cached items of the timeline below the last
\* item on screen, newest first
getTimeline(db, timelineName, summaries) ==
  SetToDesc({i \in db.timelines[timelineName] :
               summaries = <<>> \/ i < summaries[Len(summaries)].id})

\* database.insertTimelineItems
insertTimelineItems(db, timelineName, items) ==
  [db EXCEPT !.timelines[timelineName] = @ \cup IdsOf(items)]

\* fetchTimelineItems serving the cache without marking the result stale
fetchTimelineItemsFromCacheAsFresh(db, timelineName, summaries) ==
  [items |-> getTimeline(db, timelineName, summaries), stale |-> FALSE]

\* fetchTimelineItems offline, and its catch block online: the items are
\* the cached ones and the result is stale
fetchTimelineItemsFromCache(db, timelineName, summaries) ==
  [items |-> getTimeline(db, timelineName, summaries), stale |-> TRUE]

\* addTimelineItems
addTimelineItems(timelineName, items, stale) ==
  AddTimelineItemSummariesWrites(timelineName, items, stale)

\* fetchTimelineItemsAndPossiblyFallBack on a timeline that is not fetched
\* in pages, up to the network await; offline there is none and the call
\* runs to its end
fetchTimelineItemsAndPossiblyFallBack ==
  LET timelineName == currentTimeline
      fallback == fetchTimelineItemsFromCache(database, timelineName,
                                              timelineItemSummaries[timelineName])
  IN /\ fetch.phase # "pending"
     /\ IF ~online
          THEN /\ addTimelineItems(timelineName, fallback.items, fallback.stale)
               /\ lastOp' = MergeOp("fetchTimelineItemsOffline", timelineName, fallback.items)
               /\ UNCHANGED fetch
          ELSE /\ fetch' = [NoFetch EXCEPT !.phase = "pending"]
               /\ UNCHANGED <<timelineItemSummaries, timelineItemSummariesAreStale, lastOp>>
     /\ UNCHANGED <<currentTimeline, timelineItemSummariesToAdd, online, toasts, database>>

\* the network call resolved with items: they are stored and merged, and
\* the result is not stale
fetchTimelineItemsResolved(items) ==
  LET timelineName == currentTimeline
  IN /\ fetch.phase = "pending"
     /\ database' = insertTimelineItems(database, timelineName, items)
     /\ addTimelineItems(timelineName, items, FALSE)
     /\ lastOp' = MergeOp("fetchTimelineItemsResolved", timelineName, items)
     /\ fetch' = NoFetch
     /\ UNCHANGED <<currentTimeline, timelineItemSummariesToAdd, online, toasts>>

\* the network call rejected: the catch block says it shows offline content
\* and falls back to the cache
fetchTimelineItemsRejected ==
  LET timelineName == currentTimeline
      fallback == fetchTimelineItemsFromCache(database, timelineName,
                                              timelineItemSummaries[timelineName])
  IN /\ fetch.phase = "pending"
     /\ toasts' = 1
     /\ addTimelineItems(timelineName, fallback.items, fallback.stale)
     /\ lastOp' = MergeOp("fetchTimelineItemsRejected", timelineName, fallback.items)
     /\ fetch' = NoFetch
     /\ UNCHANGED <<currentTimeline, timelineItemSummariesToAdd, online, database>>

\* the browser goes offline or comes back online
onlineChanged ==
  /\ online' = ~online
  /\ UNCHANGED <<currentTimeline, timelineItemSummaries, timelineItemSummariesAreStale,
                 timelineItemSummariesToAdd, lastOp, toasts, fetch, database>>

fetchVars == <<currentTimeline, timelineItemSummaries, timelineItemSummariesAreStale,
               timelineItemSummariesToAdd, lastOp, online, toasts, fetch, database>>
notFetchVars == <<idem, storeVars, currentAccountProtocol, statusModifications, cachedPost, following,
                  postingStatus, call, idleTasks, currentAtprotoSessionDid, atprotoBookmarks,
                  atprotoBookmarkedPostUris, atprotoFeedCursors, atprotoPosts,
                  timelineNextPageId, lastTimelineItemId, lastSet, feed,
                  atprotoUnreadNotificationCount>>

\* an ActivityPub account on its home timeline, with any part of the
\* timeline in the cache
FetchInit ==
  /\ MergeInit
  /\ currentTimeline = "home"
  /\ idem = NoIdem
  /\ StoreQuiet
  /\ MutQuiet
  /\ DbQuiet
  /\ feed = <<>>
  /\ atprotoUnreadNotificationCount = 0
  /\ \E cached \in SUBSET Ids :
       database = [NoDatabase EXCEPT !.timelines["home"] = cached]

FetchItems == fetchTimelineItemsAndPossiblyFallBack /\ UNCHANGED notFetchVars
FetchItemsResolved ==
  /\ \E items \in BatchesFor(currentTimeline) : fetchTimelineItemsResolved(items)
  /\ UNCHANGED notFetchVars
FetchItemsRejected == fetchTimelineItemsRejected /\ UNCHANGED notFetchVars
OnlineChanged == onlineChanged /\ UNCHANGED notFetchVars

FetchNext == FetchItems \/ FetchItemsResolved \/ FetchItemsRejected \/ OnlineChanged

SpecFetch == FetchInit /\ [][FetchNext]_vars

(***************************************************************************)
(* Background work: the thread warm-up and the unread count                *)
(***************************************************************************)
\* the unread counts the server can report
MaxUnread == 2

\* a call that is not awaited, or that is handed to scheduleIdleTask
BackgroundTask(op) == [op |-> op]

\* database.getStatus of the focal status: cached with its in_reply_to_id,
\* or not cached
StatusIsCached(db, statusId) == statusId \in DOMAIN db.inReplyTo
IsReply(db, statusId) == db.inReplyTo[statusId] \in Ids

\* fetchTimelineItems on a thread, online, up to its network await:
\* fetchThreadFromNetwork waits for the whole thread when the status is not
\* cached, returns the cached status at once and updates status and thread
\* without waiting when it is not a reply, and otherwise updates the status
\* in an idle task and waits for the context
fetchThreadFromNetwork(timelineName) ==
  LET statusId == ThreadStatusId
      items == <<Summary(statusId)>>
  IN /\ timelineName = currentTimeline
     /\ fetch.phase # "pending"
     /\ IF ~StatusIsCached(database, statusId)
          THEN /\ fetch' = [NoFetch EXCEPT !.phase = "pending"]
               /\ UNCHANGED <<timelineItemSummaries, timelineItemSummariesAreStale, lastOp,
                              database, idleTasks>>
        ELSE IF ~IsReply(database, statusId)
          THEN /\ idleTasks' = idleTasks \cup {BackgroundTask("updateStatusAndThread")}
               /\ database' = insertTimelineItems(database, timelineName, items)
               /\ addTimelineItems(timelineName, items, FALSE)
               /\ lastOp' = MergeOp("fetchThreadFromNetwork", timelineName, items)
               /\ UNCHANGED fetch
        ELSE /\ idleTasks' = idleTasks \cup {BackgroundTask("updateStatus")}
             /\ fetch' = [NoFetch EXCEPT !.phase = "pending"]
             /\ UNCHANGED <<timelineItemSummaries, timelineItemSummariesAreStale, lastOp,
                            database>>
     /\ UNCHANGED <<currentTimeline, timelineItemSummariesToAdd, toasts,
                    atprotoUnreadNotificationCount>>

\* updateStatusAndThread has the status, and the context or an empty one in
\* its place: what it fetched is stored and handed to addStatusesOrNotifications
updateStatusAndThreadResolved(task, id) ==
  /\ task.op = "updateStatusAndThread"
  /\ idleTasks' = idleTasks \ {task}
  /\ database' = insertTimelineItems(database, currentTimeline, <<Summary(id)>>)
  /\ addStatusesOrNotifications(currentTimeline, id)
  /\ UNCHANGED <<toasts, fetch, atprotoUnreadNotificationCount>>

\* updateStatus in its idle task: the status is stored again and announced
updateStatusResolved(task) ==
  /\ task.op = "updateStatus"
  /\ idleTasks' = idleTasks \ {task}
  /\ lastOp' = [NoOp EXCEPT !.op = "updateStatus"]
  /\ UNCHANGED <<currentTimeline, timelineItemSummaries, timelineItemSummariesAreStale,
                 timelineItemSummariesToAdd, toasts, fetch, database,
                 atprotoUnreadNotificationCount>>

\* a thread warm-up that reports its failure to the user
threadWarmUpRejectedWithToast(task) ==
  /\ task.op \in {"updateStatusAndThread", "updateStatus"}
  /\ idleTasks' = idleTasks \ {task}
  /\ toasts' = 1
  /\ lastOp' = [NoOp EXCEPT !.op = "threadWarmUpRejected"]
  /\ UNCHANGED <<currentTimeline, timelineItemSummaries, timelineItemSummariesAreStale,
                 timelineItemSummariesToAdd, fetch, database,
                 atprotoUnreadNotificationCount>>

\* getStatus rejects in updateStatusAndThread or in the idle task: nobody
\* awaits the promise and nothing handles the rejection
threadWarmUpRejected(task) ==
  /\ task.op \in {"updateStatusAndThread", "updateStatus"}
  /\ idleTasks' = idleTasks \ {task}
  /\ lastOp' = [NoOp EXCEPT !.op = "threadWarmUpRejected"]
  /\ UNCHANGED <<currentTimeline, timelineItemSummaries, timelineItemSummariesAreStale,
                 timelineItemSummariesToAdd, toasts, fetch, database,
                 atprotoUnreadNotificationCount>>

\* store.updateAtprotoUnreadCount up to its network await
updateAtprotoUnreadCount ==
  /\ ~Falsy(currentAtprotoSessionDid)
  /\ idleTasks' = idleTasks \cup {BackgroundTask("updateAtprotoUnreadCount")}
  /\ lastOp' = [NoOp EXCEPT !.op = "updateAtprotoUnreadCount"]
  /\ UNCHANGED <<currentTimeline, timelineItemSummaries, timelineItemSummariesAreStale,
                 timelineItemSummariesToAdd, toasts, fetch, database,
                 atprotoUnreadNotificationCount>>

updateAtprotoUnreadCountResolved(task, count) ==
  /\ task.op = "updateAtprotoUnreadCount"
  /\ idleTasks' = idleTasks \ {task}
  /\ atprotoUnreadNotificationCount' = count
  /\ lastOp' = [NoOp EXCEPT !.op = "updateAtprotoUnreadCountResolved"]
  /\ UNCHANGED <<currentTimeline, timelineItemSummaries, timelineItemSummariesAreStale,
                 timelineItemSummariesToAdd, toasts, fetch, database>>

\* the catch block of updateAtprotoUnreadCount: console.error
updateAtprotoUnreadCountRejected(task) ==
  /\ task.op = "updateAtprotoUnreadCount"
  /\ idleTasks' = idleTasks \ {task}
  /\ lastOp' = [NoOp EXCEPT !.op = "updateAtprotoUnreadCountRejected"]
  /\ UNCHANGED <<currentTimeline, timelineItemSummaries, timelineItemSummariesAreStale,
                 timelineItemSummariesToAdd, toasts, fetch, database,
                 atprotoUnreadNotificationCount>>

notBackgroundVars == <<idem, storeVars, online, currentAccountProtocol, statusModifications, cachedPost,
                       following, postingStatus, call, currentAtprotoSessionDid,
                       atprotoBookmarks, atprotoBookmarkedPostUris, atprotoFeedCursors,
                       atprotoPosts, timelineNextPageId, lastTimelineItemId, lastSet, feed>>

\* an account of either protocol on the thread of ThreadStatusId, the
\* status not cached, cached as an original, or cached as a reply
BackgroundInit ==
  /\ MergeInit
  /\ currentTimeline = "status"
  /\ idem = NoIdem
  /\ StoreQuiet
  /\ online = TRUE
  /\ statusModifications = [k \in Kinds |-> [key \in StoreKeys |-> NoPre]]
  /\ cachedPost = [k \in Kinds |-> CachedOf(NoPre)]
  /\ following = FALSE
  /\ postingStatus = FALSE
  /\ call = NoCall
  /\ toasts = 0
  /\ idleTasks = {}
  /\ atprotoBookmarks = [h \in Hosts |-> {}]
  /\ atprotoBookmarkedPostUris = {}
  /\ atprotoFeedCursors = [h \in Hosts |-> <<>>]
  /\ atprotoPosts = [h \in Hosts |-> {}]
  /\ timelineNextPageId = [t \in CursorTimelines |-> Undefined]
  /\ lastTimelineItemId = Undefined
  /\ fetch = NoFetch
  /\ lastSet = NoSet
  /\ feed = <<>>
  /\ atprotoUnreadNotificationCount = 0
  /\ currentAccountProtocol \in Protocols
  /\ currentAtprotoSessionDid = IF currentAccountProtocol = "atproto" THEN "did:plc:a" ELSE ""
  /\ \E inReplyTo \in {<<>>} \cup [{ThreadStatusId} -> {0} \cup {i \in Ids : i < ThreadStatusId}] :
       database = [NoDatabase EXCEPT !.inReplyTo = inReplyTo]

FetchThread == fetchThreadFromNetwork("status") /\ UNCHANGED notBackgroundVars
FetchThreadResolved ==
  /\ \E items \in BatchesFor(currentTimeline) : fetchTimelineItemsResolved(items)
  /\ UNCHANGED notFetchVars
FetchThreadRejected == fetchTimelineItemsRejected /\ UNCHANGED notFetchVars
WarmUpResolved ==
  /\ \E task \in idleTasks :
       \/ \E id \in Ids : updateStatusAndThreadResolved(task, id)
       \/ updateStatusResolved(task)
  /\ UNCHANGED notBackgroundVars
WarmUpRejected == (\E task \in idleTasks : threadWarmUpRejected(task)) /\ UNCHANGED notBackgroundVars
UpdateUnreadCount == updateAtprotoUnreadCount /\ UNCHANGED notBackgroundVars
UpdateUnreadCountResolved ==
  /\ \E task \in idleTasks : \E count \in 0..MaxUnread :
       updateAtprotoUnreadCountResolved(task, count)
  /\ UNCHANGED notBackgroundVars
UpdateUnreadCountRejected ==
  /\ \E task \in idleTasks : updateAtprotoUnreadCountRejected(task)
  /\ UNCHANGED notBackgroundVars

BackgroundNext ==
  \/ FetchThread \/ FetchThreadResolved \/ FetchThreadRejected
  \/ WarmUpResolved \/ WarmUpRejected
  \/ UpdateUnreadCount \/ UpdateUnreadCountResolved \/ UpdateUnreadCountRejected

SpecBackground == BackgroundInit /\ [][BackgroundNext]_vars

(***************************************************************************)
(* First fetches and paged fetches of one account, with their cursors      *)
(***************************************************************************)
\* the pages of the paged fetches: one post each
TokenPages == {<<[post |-> "at://p1", reason |-> NoReason]>>}

FetchPagedWithToken ==
  /\ fetch.phase # "pending"
  /\ \E page \in TokenPages : \E newNextPageId \in CursorValues :
       fetchPagedItems(currentTimeline, page, newNextPageId)
  /\ UNCHANGED <<idem, storeVars, mutVars>>

TokenNext == CursorNext \/ FetchPagedWithToken

SpecTokens == StoreInit /\ [][TokenNext]_vars

(***************************************************************************)
(* Deleting a status                                                       *)
(***************************************************************************)
\* the local deletions waiting for an idle period at one time
MaxIdleTasks == 1

\* the ids a list does not show: none of them or the newest of them is
\* waiting behind the "show more" header
PendingOf(all, shown) ==
  {{}} \cup {{x} : x \in {y \in all \ shown : \A z \in all \ shown : z <= y}}

\* the ActivityPub stores and lists a deletion can find; under atproto the
\* lists are filled by the paged fetches of the run
DeleteInit ==
  /\ currentTimeline = "home"
  /\ timelineItemSummariesAreStale = [t \in TimelineNames |-> FALSE]
  /\ lastOp = NoOp
  /\ idem = NoIdem
  /\ StoreQuiet
  /\ online = TRUE
  /\ statusModifications = [k \in Kinds |-> [key \in StoreKeys |-> NoPre]]
  /\ cachedPost = [k \in Kinds |-> CachedOf(NoPre)]
  /\ following = FALSE
  /\ postingStatus = FALSE
  /\ call = NoCall
  /\ toasts = 0
  /\ idleTasks = {}
  /\ atprotoBookmarks = [h \in Hosts |-> {}]
  /\ atprotoBookmarkedPostUris = {}
  /\ atprotoFeedCursors = [h \in Hosts |-> <<>>]
  /\ atprotoPosts = [h \in Hosts |-> {}]
  /\ timelineNextPageId = [t \in CursorTimelines |-> Undefined]
  /\ lastTimelineItemId = Undefined
  /\ fetch = NoFetch
  /\ lastSet = NoSet
  /\ feed = <<>>
  /\ atprotoUnreadNotificationCount = 0
  /\ currentAccountProtocol \in Protocols
  /\ IF currentAccountProtocol = "atproto"
       THEN /\ currentAtprotoSessionDid = "did:plc:a"
            /\ database = NoDatabase
            /\ timelineItemSummaries = [t \in TimelineNames |-> <<>>]
            /\ timelineItemSummariesToAdd = [t \in TimelineNames |-> <<>>]
       ELSE /\ currentAtprotoSessionDid = ""
            /\ \E statuses \in ReblogRelations : \E notifications \in [NotificationIds -> Ids] :
                 database = [NoDatabase EXCEPT !.statuses = statuses,
                                               !.notifications = notifications]
            /\ \E home \in SUBSET Ids : \E waiting \in PendingOf(Ids, home) :
               \E shown \in SUBSET NotificationIds :
                 /\ timelineItemSummaries =
                      [t \in TimelineNames |->
                         IF t = "home" THEN SetToDesc(home)
                         ELSE IF t = "status" THEN SetToAsc(home) ELSE SetToDesc(shown)]
                 /\ timelineItemSummariesToAdd =
                      [t \in TimelineNames |->
                         IF t = "home" THEN SetToDesc(waiting)
                         ELSE IF t = "status" THEN <<>>
                         ELSE SetToDesc(NotificationIds \ shown)]

DeleteStatus ==
  /\ Cardinality(idleTasks) < MaxIdleTasks
  /\ \E id \in IF currentAccountProtocol = "atproto" THEN PostUris ELSE Ids :
       doDeleteStatus(id, id \in PostUris)
  /\ UNCHANGED notMutVars

DeleteLocally ==
  /\ \E task \in idleTasks : doDeleteStatusLocally(task)
  /\ UNCHANGED <<idem, storeVars, online, currentAccountProtocol, statusModifications, cachedPost,
                 following, postingStatus, call, toasts, currentAtprotoSessionDid,
                 atprotoBookmarks, atprotoBookmarkedPostUris, atprotoFeedCursors,
                 timelineNextPageId, lastTimelineItemId, fetch, lastSet, feed,
                 atprotoUnreadNotificationCount>>

DeleteNext ==
  \/ FetchPaged \/ DeleteStatus \/ DeleteResolved \/ DeleteRejected \/ DeleteLocally

SpecDelete == DeleteInit /\ [][DeleteNext]_vars

\* what the queries of the local store return under an account
View(did) ==
  LET pdsHostname == pdsHostnameOf(did)
  IN [bookmarks |-> getAllAtprotoBookmarks(atprotoBookmarks, pdsHostname),
      cursors |-> [t \in CursorTimelines |->
                     getAtprotoFeedCursor(atprotoFeedCursors, pdsHostname,
                                          atprotoFeedIdentifier(t))],
      posts |-> atprotoPosts[pdsHostname]]

BackgroundMerge ==
  /\ \E t \in TimelineNames : \E b \in BatchesFor(t) : \E stale \in BOOLEAN :
       addTimelineItemSummaries(t, b, stale)
  /\ UNCHANGED notMergeVars

PagedMerge ==
  /\ \E t \in TimelineNames : \E b \in BatchesFor(t) : addPagedTimelineItemSummaries(t, b)
  /\ UNCHANGED notMergeVars

ShowMoreTimeline ==
  /\ \E t \in TimelineNames : showMoreItemsForTimeline(t)
  /\ UNCHANGED notMergeVars

ShowMoreThread ==
  /\ \E t \in TimelineNames : showMoreItemsForThread(t)
  /\ UNCHANGED notMergeVars

StreamItem ==
  /\ \E t \in TimelineNames : \E i \in Ids : addStatusesOrNotifications(t, i)
  /\ UNCHANGED notMergeVars

MergeNext == BackgroundMerge \/ PagedMerge \/ ShowMoreTimeline \/ ShowMoreThread \/ StreamItem

Init == MergeInit /\ idem = NoIdem /\ RestInit

Next == MergeNext

Spec == Init /\ [][Next]_vars

(***************************************************************************)
(* Fetches, streamed items and the pending items shown, together           *)
(***************************************************************************)
StaleNext == FetchNext \/ ShowMoreTimeline \/ StreamItem

SpecStale == FetchInit /\ [][StaleNext]_vars

(***************************************************************************)
(* The same batch merged twice in a row                                    *)
(***************************************************************************)
RECURSIVE Arrangements(_)
\* every ordering of every subset of S, as summary lists
Arrangements(S) ==
  {<<>>} \cup UNION {{<<Summary(x)>> \o rest : rest \in Arrangements(S \ {x})} : x \in S}

\* the summary lists the merge engine can hold for a timeline: a thread is
\* kept in thread order; paged merges append, so a feed or notification
\* list can hold its ids in any order
StoredLists(timelineName) ==
  IF TimelineType(timelineName) = "status"
    THEN {SetToAsc(S) : S \in SUBSET Ids}
    ELSE Arrangements(Ids)

IdemInit ==
  /\ currentTimeline \in TimelineNames
  /\ \E l \in StoredLists(currentTimeline) :
       timelineItemSummaries = [t \in TimelineNames |-> IF t = currentTimeline THEN l ELSE <<>>]
  /\ timelineItemSummariesToAdd = [t \in TimelineNames |-> <<>>]
  /\ timelineItemSummariesAreStale = [t \in TimelineNames |-> FALSE]
  /\ lastOp = NoOp
  /\ idem = NoIdem
  /\ RestInit

MergeOnceBackground ==
  /\ idem.phase = 0
  /\ \E b \in BatchesFor(currentTimeline) :
       /\ addTimelineItemSummaries(currentTimeline, b, FALSE)
       /\ idem' = [phase |-> 1, op |-> "addTimelineItemSummaries", batch |-> b,
                   once |-> timelineItemSummaries'[currentTimeline]]
  /\ UNCHANGED restVars

MergeOncePaged ==
  /\ idem.phase = 0
  /\ \E b \in BatchesFor(currentTimeline) :
       /\ addPagedTimelineItemSummaries(currentTimeline, b)
       /\ idem' = [phase |-> 1, op |-> "addPagedTimelineItemSummaries", batch |-> b,
                   once |-> timelineItemSummaries'[currentTimeline]]
  /\ UNCHANGED restVars

MergeAgainBackground ==
  /\ idem.phase = 1
  /\ idem.op = "addTimelineItemSummaries"
  /\ addTimelineItemSummaries(currentTimeline, idem.batch, FALSE)
  /\ idem' = [idem EXCEPT !.phase = 2]
  /\ UNCHANGED restVars

MergeAgainPaged ==
  /\ idem.phase = 1
  /\ idem.op = "addPagedTimelineItemSummaries"
  /\ addPagedTimelineItemSummaries(currentTimeline, idem.batch)
  /\ idem' = [idem EXCEPT !.phase = 2]
  /\ UNCHANGED restVars

IdemNext == MergeOnceBackground \/ MergeOncePaged \/ MergeAgainBackground \/ MergeAgainPaged

SpecIdem == IdemInit /\ [][IdemNext]_vars

(***************************************************************************)
(* A batch fetched again, merged into summaries of an earlier fetch        *)
(***************************************************************************)
\* the summaries of a list as the fetch number n delivered them: the same
\* ids, with the data of that fetch
FetchedAt(summaries, n) ==
  [i \in DOMAIN summaries |-> [id |-> summaries[i].id, fetch |-> n]]

FresherInit ==
  /\ currentTimeline \in TimelineNames
  /\ \E l \in StoredLists(currentTimeline) :
       timelineItemSummaries =
         [t \in TimelineNames |-> IF t = currentTimeline THEN FetchedAt(l, 0) ELSE <<>>]
  /\ timelineItemSummariesToAdd = [t \in TimelineNames |-> <<>>]
  /\ timelineItemSummariesAreStale = [t \in TimelineNames |-> FALSE]
  /\ lastOp = NoOp
  /\ idem = NoIdem
  /\ RestInit

MergeFresherBackground ==
  /\ idem.phase = 0
  /\ \E b \in BatchesFor(currentTimeline) :
       /\ addTimelineItemSummaries(currentTimeline, FetchedAt(b, 1), FALSE)
       /\ idem' = [phase |-> 1, op |-> "addTimelineItemSummaries", batch |-> FetchedAt(b, 1),
                   once |-> timelineItemSummaries'[currentTimeline]]
  /\ UNCHANGED restVars

MergeFresherPaged ==
  /\ idem.phase = 0
  /\ \E b \in BatchesFor(currentTimeline) :
       /\ addPagedTimelineItemSummaries(currentTimeline, FetchedAt(b, 1))
       /\ idem' = [phase |-> 1, op |-> "addPagedTimelineItemSummaries",
                   batch |-> FetchedAt(b, 1),
                   once |-> timelineItemSummaries'[currentTimeline]]
  /\ UNCHANGED restVars

FresherNext == MergeFresherBackground \/ MergeFresherPaged

SpecFresher == FresherInit /\ [][FresherNext]_vars

(***************************************************************************)
(* Claims about the merge engine                                           *)
(***************************************************************************)
\* C1: after any sequence of background-refresh merges, paged merges and
\* show-more operations, no two entries of a timeline's stored summary list
\* have the same id.
C1_NoDuplicateIds == \A t \in TimelineNames : NoDuplicateIds(timelineItemSummaries[t])

\* C1 witness: a merge or show-more has run on a batch that overlaps the
\* stored list, and the list holds every id
C1_Witness ==
  /\ lastOp.op \in {"addTimelineItemSummaries", "addPagedTimelineItemSummaries",
                    "showMoreItemsForThread", "showMoreItemsForTimeline"}
  /\ lastOp.overlap
  /\ Len(timelineItemSummaries[currentTimeline]) = MaxId

C3_MergeIdempotent ==
  idem.phase = 2 => timelineItemSummaries[currentTimeline] = idem.once

\* C3 witness: a batch that overlaps the stored list and adds to it has been
\* merged twice
C3_Witness ==
  /\ idem.phase = 2
  /\ Len(idem.batch) >= 2
  /\ lastOp.overlap
  /\ Len(idem.once) = MaxId

\* C4 (as stated): when a like, repost or bookmark fails at the network call,
\* the flag and the count of the target status equal the values they had
\* before the action was invoked, whatever those values were.
C4_RollbackRestoresPriorState ==
  (/\ call.phase = "done"
   /\ call.action \in {"setFavorited", "setReblogged", "setStatusBookmarkedOrUnbookmarked"}
   /\ call.outcome = "networkFailure")
  => statusModifications[CallKind(call.action)][TargetId] = call.pre

\* C7 (as stated): every completed like, repost, post, delete or follow has
\* produced exactly one user-visible signal.
C7_ExactlyOneSignal ==
  (/\ call.phase = "done"
   /\ call.action \in {"setFavorited", "setReblogged", "postStatus", "doDeleteStatus",
                       "setAccountFollowed"})
  => toasts = 1

(***************************************************************************)
(* Claims about the local store                                            *)
(***************************************************************************)
\* the fetch in progress reads, after a reload, the cursor of the account
\* and timeline whose cursor was the last one set
ColdReadOfLastSet ==
  /\ fetch.phase = "pending"
  /\ fetch.cold
  /\ lastSet.count > 0
  /\ lastSet.restarted
  /\ fetch.did = lastSet.did
  /\ fetch.timeline = lastSet.timeline

C8_AccountIsolation ==
  [][\A did \in Accounts :
       (did # currentAtprotoSessionDid /\ did # currentAtprotoSessionDid')
         => View(did)' = View(did)]_vars

(***************************************************************************)
(* Claims about the normalizer and about deletion                          *)
(***************************************************************************)
\* C6 (as stated): the id of a repost of P by Q differs from the id of P and
\* from the id of a repost of P by another actor, and the feed items fetched
\* are as many entries of the merged timeline.
C6_RepostIdUniqueness ==
  lastOp.op = "fetchPagedItems" =>
    /\ \A i \in DOMAIN feed :
         feed[i].reason # NoReason =>
           /\ transformAtprotoPostToEnaforeStatus(feed[i]).id
                # transformAtprotoPostToEnaforeStatus(
                    [post |-> feed[i].post, reason |-> NoReason]).id
           /\ \A j \in DOMAIN feed :
                (feed[j].post = feed[i].post /\ feed[j].reason \notin {NoReason, feed[i].reason})
                  => transformAtprotoPostToEnaforeStatus(feed[j]).id
                       # transformAtprotoPostToEnaforeStatus(feed[i]).id
    /\ Cardinality(IdsOf(timelineItemSummaries["home"]))
         = Cardinality({feed[i] : i \in DOMAIN feed})

\* C9: the local deletion of an ActivityPub status takes the status and the
\* statuses that reblog it out of every list of every timeline but the
\* notifications, and the notifications about them out of the notifications;
\* nothing else leaves a list.
C9_DeleteCascades ==
  [][\A task \in idleTasks :
       (idleTasks' = idleTasks \ {task} /\ task.protocol = "activitypub") =>
         LET gone == {task.statusId}
                       \cup {s \in DOMAIN database.statuses :
                               database.statuses[s] = task.statusId}
             goneNotifications ==
               {n \in DOMAIN database.notifications : database.notifications[n] \in gone}
             Kept(list, ids) == SelectSeq(list, LAMBDA s : s.id \notin ids)
         IN \A t \in TimelineNames :
              LET ids == IF t = "notifications" THEN goneNotifications ELSE gone
              IN /\ timelineItemSummaries'[t] = Kept(timelineItemSummaries[t], ids)
                 /\ timelineItemSummariesToAdd'[t] = Kept(timelineItemSummariesToAdd[t], ids)
    ]_vars

\* C9 witness: a deletion has taken a status and two reblogs of it out of
\* the timelines and a notification about them out of the notifications
C9_Witness ==
  /\ lastOp.op = "doDeleteStatus"
  /\ lastOp.protocol = "activitypub"
  /\ Cardinality(lastOp.removedStatusIds) = 3
  /\ lastOp.removedNotificationIds # {}

C11_UnrepostRecoversReference ==
  ~(/\ call.action = "setReblogged"
    /\ call.phase = "done"
    /\ call.outcome = "missingReference"
    /\ ~Falsy(cachedPost["reblogged"].refUri))

(***************************************************************************)
(* Claims about loading more                                               *)
(***************************************************************************)
\* the page a paged fetch has just added to the feed
PageOfStep == SubSeq(feed', Len(feed) + 1, Len(feed'))

\* the page holds older items: posts that are not in the stored list, each once
OlderItems(page, stored) ==
  /\ \A i \in DOMAIN page : page[i].post \notin IdsOf(stored)
  /\ \A i, j \in DOMAIN page : i # j => page[i].post # page[j].post

C14_ReinvocationKeepsCount ==
  [][(/\ call.phase = "pending"
      /\ call'.phase = "done"
      /\ call.action \in {"setFavorited", "setReblogged"}
      /\ call.desired = call.pre.flag)
       => /\ statusModifications'[CallKind(call.action)][TargetId].count = call.pre.count
          /\ cachedPost[CallKind(call.action)].flag = call.desired
               => cachedPost'[CallKind(call.action)].count
                    = cachedPost[CallKind(call.action)].count]_vars

\* C15: whatever likes, unlikes, reposts and unreposts have been made, and
\* however they ended, the like count and the repost count of a status are
\* integers that are not negative.
C15_CountsNeverNegative ==
  \A kind \in {"favorited", "reblogged"} :
    /\ \A key \in StoreKeys : statusModifications[kind][key].count \in Nat
    /\ cachedPost[kind].count \in Nat

\* an unlike or unrepost of a status that counted 0 has resolved, and the
\* counts are still 0
C15_Witness ==
  /\ call.phase = "done"
  /\ call.action \in {"setFavorited", "setReblogged"}
  /\ call.outcome = "success"
  /\ call.pre = [flag |-> TRUE, count |-> 0]
  /\ currentAccountProtocol = "atproto"
  /\ statusModifications[CallKind(call.action)][TargetId] = [flag |-> FALSE, count |-> 0]
  /\ cachedPost[CallKind(call.action)].count = 0
  /\ ~cachedPost[CallKind(call.action)].flag

(***************************************************************************)
(* Claims about fetching a timeline                                        *)
(***************************************************************************)
\* a fetch made offline, and a fetch whose network call was rejected
OfflineFetchStep == ~online /\ online' = online /\ fetch.phase # "pending"
RejectedFetchStep ==
  fetch.phase = "pending" /\ fetch'.phase # "pending"
    /\ lastOp'.op = "fetchTimelineItemsRejected"

C18_EndOfFeedDistinctFromNeverSet ==
  \A pdsHostname \in Hosts : \A timelineName \in CursorTimelines :
    LET feedUri == atprotoFeedIdentifier(timelineName)
        objectStore == atprotoFeedCursors[pdsHostname]
    IN (feedUri \in DOMAIN objectStore /\ "cursor" \notin DOMAIN objectStore[feedUri])
         => getAtprotoFeedCursor(atprotoFeedCursors, pdsHostname, feedUri)
              # getAtprotoFeedCursor([h \in Hosts |-> <<>>], pdsHostname, feedUri)

(***************************************************************************)
(* Claims about background work                                            *)
(***************************************************************************)
\* C19: a thread warm-up or an unread-count refresh that fails tells the
\* user nothing: no toast is made, and the lists, the stale flags and the
\* unread count on screen stay as they were.
C19_BackgroundFailuresAreSilent ==
  [][\A task \in idleTasks :
       (/\ idleTasks' = idleTasks \ {task}
        /\ lastOp'.op \in {"threadWarmUpRejected", "updateAtprotoUnreadCountRejected"})
         => /\ toasts' = toasts
            /\ timelineItemSummaries' = timelineItemSummaries
            /\ timelineItemSummariesAreStale' = timelineItemSummariesAreStale
            /\ atprotoUnreadNotificationCount' = atprotoUnreadNotificationCount]_vars

\* a warm-up started behind a cached status has failed: the status is on
\* screen, the thread is not stale and no toast was made
C19_Witness ==
  /\ lastOp.op = "threadWarmUpRejected"
  /\ idleTasks = {}
  /\ toasts = 0
  /\ timelineItemSummaries["status"] = <<Summary(ThreadStatusId)>>
  /\ ~timelineItemSummariesAreStale["status"]

(***************************************************************************)
(* Claims about the client-side bookmarks                                  *)
(***************************************************************************)
AtprotoBookmarkStep ==
  /\ currentAccountProtocol = "atproto"
  /\ call.action = "setStatusBookmarkedOrUnbookmarked"
  /\ call.phase = "pending"
  /\ call'.phase = "done"

\* C20: bookmarking or un-bookmarking an atproto post waits for no network
\* call (it fails only on storage) and, when it succeeds, changes the
\* bookmark record of that post in the account's database, the set of
\* bookmarked uris in memory and the bookmarked flag of the cached status,
\* and nothing else but the toast.
C20_AtprotoBookmarkIsLocal ==
  [][AtprotoBookmarkStep =>
       LET postUri == call.statusId.uri
           pdsHostname == pdsHostnameOf(currentAtprotoSessionDid)
       IN /\ call'.outcome \in {"success", "storageFailure"}
          /\ call'.outcome = "success" =>
               /\ \A h \in Hosts \ {pdsHostname} : atprotoBookmarks'[h] = atprotoBookmarks[h]
               /\ atprotoBookmarks'[pdsHostname] \ {postUri} = atprotoBookmarks[pdsHostname] \ {postUri}
               /\ (postUri \in atprotoBookmarks'[pdsHostname]) = call.desired
               /\ atprotoBookmarkedPostUris' \ {postUri} = atprotoBookmarkedPostUris \ {postUri}
               /\ (postUri \in atprotoBookmarkedPostUris') = call.desired
               /\ cachedPost'["bookmarked"].flag = call.desired
               /\ \A k \in Kinds \ {"bookmarked"} : cachedPost'[k] = cachedPost[k]
               /\ cachedPost'["bookmarked"].count = cachedPost["bookmarked"].count
          /\ call'.outcome = "storageFailure" =>
               UNCHANGED <<atprotoBookmarks, atprotoBookmarkedPostUris, cachedPost>>
          /\ UNCHANGED <<statusModifications, atprotoPosts, atprotoFeedCursors, online,
                         following, postingStatus, idleTasks, timelineNextPageId,
                         lastTimelineItemId, mergeVars, cacheVars>>]_vars

\* a post was bookmarked while the device was offline
C20_Witness ==
  /\ currentAccountProtocol = "atproto"
  /\ ~online
  /\ call.action = "setStatusBookmarkedOrUnbookmarked"
  /\ call.outcome = "success"
  /\ atprotoBookmarks[pdsHostnameOf(currentAtprotoSessionDid)] = {TargetId}
  /\ atprotoBookmarkedPostUris = {TargetId}
  /\ cachedPost["bookmarked"].flag
  /\ ~call.pre.flag

(***************************************************************************)
(* Claims about the validation of likes and reposts                        *)
(***************************************************************************)
\* a call of setFavorited or setReblogged of an atproto account runs up to
\* its first await or to its return
AtprotoLikeOrRepostCallStep ==
  /\ currentAccountProtocol = "atproto"
  /\ call.phase # "pending"
  /\ call' # call
  /\ call'.action \in {"setFavorited", "setReblogged"}

\* C21: an atproto like, unlike, repost or unrepost reaches the network
\* only with a post uri and a cid and, for an undo, a reference id; a call
\* that does not reach the network leaves the status modifications and the
\* cached status as they were.
C21_InvalidRequestTouchesNothing ==
  [][AtprotoLikeOrRepostCallStep =>
       /\ call'.phase = "pending" =>
            /\ call'.statusId.uri # ""
            /\ call'.statusId.cid # ""
            /\ call'.desired \/ call'.statusId.refUri # ""
       /\ call'.phase # "pending" =>
            UNCHANGED <<statusModifications, cachedPost, atprotoPosts>>]_vars

\* an unlike without a cid was turned away from a status that is liked
C21_Witness ==
  /\ currentAccountProtocol = "atproto"
  /\ online
  /\ call.action = "setFavorited"
  /\ call.phase = "done"
  /\ call.outcome = "missingIdentifier"
  /\ toasts = 1
  /\ statusModifications["favorited"][TargetId].flag

\* C22 (as stated): in a like or repost that reaches the network, the
\* network call is made after the optimistic update of the store.
C22_NetworkCallAfterOptimisticUpdate ==
  (/\ call.phase = "pending"
   /\ call.action \in {"setFavorited", "setReblogged"})
  => \E i, j \in DOMAIN call.steps :
       /\ i < j
       /\ call.steps[i] = "optimisticUpdate"
       /\ call.steps[j] = "networkCall"

\* C23 (as stated): when an atproto like or repost has succeeded, the cached
\* status holds the reference id the server returned, and the read an undo
\* makes of the cached status (my_like_uri, my_repost_uri) obtains it.
C23_ReferenceIdRecoverableAfterSuccess ==
  [][(/\ currentAccountProtocol = "atproto"
      /\ call.phase = "pending"
      /\ call.action \in {"setFavorited", "setReblogged"}
      /\ call.desired
      /\ call'.outcome = "success")
       => LET kind == CallKind(call.action)
              postInStore == getPostByUri(cachedPost', kind, call.statusId.uri)
          IN /\ cachedPost'[kind].refUri = "ref"
             /\ GetProperty(postInStore,
                             IF kind = "favorited" THEN "my_like_uri" ELSE "my_repost_uri") = "ref"]_vars

(***************************************************************************)
(* Claims about the stale flag                                             *)
(***************************************************************************)
\* C24 (as stated): the stale flag of a timeline goes from true to false
\* only in the step in which a network fetch of that timeline resolves.
C24_StaleUntilSuccessfulFetch ==
  [][\A t \in TimelineNames :
       (timelineItemSummariesAreStale[t] /\ ~timelineItemSummariesAreStale'[t])
         => /\ fetch.phase = "pending"
            /\ lastOp'.op = "fetchTimelineItemsResolved"]_vars

(***************************************************************************)
(* Claims about the page token                                             *)
(***************************************************************************)
\* C25 (as stated): once a page fetch has left the next-page token of the
\* timeline undefined, a later load-more leaves the token undefined and the
\* summary list as it is.
C25_EndOfFeedIsTerminal ==
  [][(/\ lastSet.count > 0
      /\ lastSet.timeline = currentTimeline
      /\ lastSet.token = Undefined
      /\ timelineNextPageId[currentTimeline] = Undefined
      /\ feed' # feed
      /\ lastOp'.op = "fetchPagedItems")
       => /\ timelineNextPageId'[currentTimeline] = Undefined
          /\ timelineItemSummaries'[currentTimeline] = timelineItemSummaries[currentTimeline]]_vars

\* a fetch of timeline t resolves, or a paged fetch of t has run
SuccessfulFetchStep(t) ==
  \/ /\ fetch.phase = "pending"
     /\ fetch.timeline = t
     /\ lastSet'.count = lastSet.count + 1
  \/ /\ t = currentTimeline
     /\ feed' # feed
     /\ lastOp'.op = "fetchPagedItems"

StoredCursor(cursors, t) ==
  getAtprotoFeedCursor(cursors, pdsHostnameOf(currentAtprotoSessionDid), atprotoFeedIdentifier(t))

\* C27 (as stated): two timelines of an account never share the key of
\* their stored cursors, and a fetch of one timeline leaves the cursor
\* stored for every other timeline of the account as it was.
C27_CursorsScopedByTimeline ==
  [][\A t \in CursorTimelines : \A u \in CursorTimelines \ {t} :
       /\ atprotoFeedIdentifier(t) # atprotoFeedIdentifier(u)
       /\ SuccessfulFetchStep(t)
            => StoredCursor(atprotoFeedCursors', u) = StoredCursor(atprotoFeedCursors, u)]_vars

C30_PagedMergeAppendsWithoutSorting ==
  [][(/\ lastOp'.op = "addPagedTimelineItemSummaries"
      /\ TimelineType(currentTimeline) # "status")
       => LET old == timelineItemSummaries[currentTimeline]
              new == timelineItemSummaries'[currentTimeline]
          IN /\ Len(new) >= Len(old)
             /\ SubSeq(new, 1, Len(old)) = old
             /\ \A k \in (Len(old) + 1)..Len(new) : new[k].id \notin IdsOf(old)]_vars

\* a page that overlaps the stored list and brings an entry newer than the
\* last stored one was merged into a feed: the list is out of sort order
C30_Witness ==
  /\ lastOp.op = "addPagedTimelineItemSummaries"
  /\ TimelineType(currentTimeline) = "home"
  /\ lastOp.appended
  /\ lastOp.overlap
  /\ ~lastOp.older
  /\ ~SortedDesc(timelineItemSummaries[currentTimeline])
  /\ Len(timelineItemSummaries[currentTimeline]) = MaxId

(***************************************************************************)
(* The timelines that are fetched in pages only                            *)
(***************************************************************************)
PagedOnlyTimelines == {"favorites", "bookmarks"}

\* fetchPagedItems under ActivityPub, the server returning the items and a
\* Link header whose next url carries newNextPageId: the token is put in the
\* store, storeFreshTimelineItemsInDatabase inserts the items,
\* addPagedTimelineItems merges
fetchPagedItemsActivityPub(timelineName, items, newNextPageId) ==
  LET oldSummaries == timelineItemSummaries[timelineName]
      merged == pagedMergedSummaries(timelineName, oldSummaries, items)
  IN /\ currentAccountProtocol = "activitypub"
     /\ timelineName = currentTimeline
     /\ timelineNextPageId' = [timelineNextPageId EXCEPT ![timelineName] = newNextPageId]
     /\ database' = insertTimelineItems(database, timelineName, items)
     /\ timelineItemSummaries' =
          IF ~isEqual(oldSummaries, merged)
            THEN [timelineItemSummaries EXCEPT ![timelineName] = merged]
            ELSE timelineItemSummaries
     /\ lastTimelineItemId' = IF merged = <<>> THEN Undefined ELSE merged[Len(merged)].id
     /\ lastOp' = [NoOp EXCEPT !.op = "fetchPagedItems"]
     /\ UNCHANGED <<currentTimeline, timelineItemSummariesToAdd, timelineItemSummariesAreStale,
                    currentAtprotoSessionDid, atprotoBookmarks, atprotoBookmarkedPostUris,
                    atprotoFeedCursors, atprotoPosts, fetch, lastSet, feed,
                    atprotoUnreadNotificationCount>>

\* fetchPagedItems, the network call rejecting: nothing after the await runs
\* and the rejection leaves fetchTimelineItemsAndPossiblyFallBack
fetchPagedItemsRejected(timelineName) ==
  /\ timelineName = currentTimeline
  /\ lastOp' = [NoOp EXCEPT !.op = "fetchPagedItemsRejected"]
  /\ UNCHANGED <<currentTimeline, timelineItemSummaries, timelineItemSummariesToAdd,
                 timelineItemSummariesAreStale, dbVars, cacheVars>>

\* an account of either protocol on its favorites or its bookmarks, online
\* or offline, with items of the timeline in the database
FavoritesInit ==
  /\ currentTimeline \in PagedOnlyTimelines
  /\ timelineItemSummaries = [t \in TimelineNames \cup PagedOnlyTimelines |-> <<>>]
  /\ timelineItemSummariesToAdd = [t \in TimelineNames \cup PagedOnlyTimelines |-> <<>>]
  /\ timelineItemSummariesAreStale = [t \in TimelineNames \cup PagedOnlyTimelines |-> FALSE]
  /\ lastOp = NoOp
  /\ idem = NoIdem
  /\ StoreQuiet
  /\ online \in BOOLEAN
  /\ currentAccountProtocol \in Protocols
  /\ statusModifications = [k \in Kinds |-> [key \in StoreKeys |-> NoPre]]
  /\ cachedPost = [k \in Kinds |-> CachedOf(NoPre)]
  /\ following = FALSE
  /\ postingStatus = FALSE
  /\ call = NoCall
  /\ toasts = 0
  /\ idleTasks = {}
  /\ currentAtprotoSessionDid = IF currentAccountProtocol = "atproto" THEN "did:plc:a" ELSE ""
  /\ atprotoBookmarks = [h \in Hosts |-> {}]
  /\ atprotoBookmarkedPostUris = {}
  /\ atprotoFeedCursors = [h \in Hosts |-> <<>>]
  /\ atprotoPosts = [h \in Hosts |-> {}]
  /\ timelineNextPageId = [t \in CursorTimelines \cup PagedOnlyTimelines |-> Undefined]
  /\ lastTimelineItemId = Undefined
  /\ fetch = NoFetch
  /\ lastSet = NoSet
  /\ feed = <<>>
  /\ atprotoUnreadNotificationCount = 0
  /\ \E cached \in {{}, Ids} :
       database = [NoDatabase EXCEPT !.timelines =
                     [t \in TimelineNames \cup PagedOnlyTimelines |->
                        IF t = currentTimeline /\ currentAccountProtocol = "activitypub"
                          THEN cached ELSE {}]]

\* fetchTimelineItemsAndPossiblyFallBack on favorites or bookmarks: the
\* branch that calls fetchPagedItems, whatever the value of online
FetchFavorites ==
  /\ currentTimeline \in PagedOnlyTimelines
  /\ online
  /\ \E page \in FeedPages(1) : \E newNextPageId \in CursorValues :
       fetchPagedItems(currentTimeline, page, newNextPageId)
  /\ UNCHANGED <<idem, storeVars, mutVars>>

FetchFavoritesActivityPub ==
  /\ currentTimeline \in PagedOnlyTimelines
  /\ online
  /\ \E items \in FeedBatches : \E newNextPageId \in CursorValues :
       fetchPagedItemsActivityPub(currentTimeline, items, newNextPageId)
  /\ UNCHANGED <<idem, storeVars, mutVars>>

FetchFavoritesRejected ==
  /\ currentTimeline \in PagedOnlyTimelines
  /\ fetchPagedItemsRejected(currentTimeline)
  /\ UNCHANGED <<idem, storeVars, mutVars>>

FavoritesNext ==
  FetchFavorites \/ FetchFavoritesActivityPub \/ FetchFavoritesRejected \/ OnlineChanged

SpecFavorites == FavoritesInit /\ [][FavoritesNext]_vars

\* the list of the timeline changes only with a page the network returned
\* to fetchPagedItems, and the timeline is never marked stale
FavoritesComeFromTheNetwork ==
  [][(currentTimeline \in PagedOnlyTimelines)
       => (/\ timelineItemSummaries' # timelineItemSummaries
                => (online /\ lastOp'.op = "fetchPagedItems")
           /\ ~timelineItemSummariesAreStale'[currentTimeline])]_vars

fetchTimelineItemsStoreRejected ==
  LET timelineName == currentTimeline
      fallback == fetchTimelineItemsFromCache(database, timelineName,
                                              timelineItemSummaries[timelineName])
  IN /\ fetch.phase = "pending"
     /\ toasts' = 1
     /\ addTimelineItems(timelineName, fallback.items, fallback.stale)
     /\ lastOp' = MergeOp("fetchTimelineItemsStoreRejected", timelineName, fallback.items)
     /\ fetch' = NoFetch
     /\ UNCHANGED <<currentTimeline, timelineItemSummariesToAdd, online, database>>

FetchItemsStoreRejected == fetchTimelineItemsStoreRejected /\ UNCHANGED notFetchVars

StoreFailureNext == FetchNext \/ FetchItemsStoreRejected

SpecStoreFailure == FetchInit /\ [][StoreFailureNext]_vars

\* C32: a local write that fails while a timeline is fetched ends the fetch
\* as a failure: the call does not go on, so nothing is merged into the
\* list, the timeline is not marked stale and the user is not told that
\* offline content is shown, which is what a failed network call does.
C32_StoreFailureIsPropagated ==
  [][(lastOp'.op = "fetchTimelineItemsStoreRejected")
       => (/\ toasts' = toasts
           /\ timelineItemSummaries' = timelineItemSummaries
           /\ timelineItemSummariesAreStale' = timelineItemSummariesAreStale)]_vars

(***************************************************************************)
(* A fetched page that holds an invalid item                               *)
(***************************************************************************)
\* a feed item without a post; one whose post has no author goes the same
\* way, transformAtprotoPostToEnaforeStatus reading post.author.did
MissingPost == "missing"
InvalidFeedViewPost == [post |-> MissingPost, reason |-> NoReason]
IsValidFeedViewPost(feedViewPost) == feedViewPost.post # MissingPost

\* the pages of one or two items the agent can return, valid or not
RawPages == UNION {PagesOfLen(FeedViewPosts \cup {InvalidFeedViewPost}, k) : k \in 1..2}

\* getTimeline of _api_atproto/timelines.js on the feed of the response:
\* response.data.feed.map(transformAtprotoPostToEnaforeStatus), where the
\* transform reads post.uri and post.author.did of every item; a missing post
\* or author is a TypeError, which the catch block logs and throws again
getAtprotoTimeline(rawFeed) ==
  IF \E i \in DOMAIN rawFeed : ~IsValidFeedViewPost(rawFeed[i])
    THEN [threw |-> TRUE, items |-> <<>>]
    ELSE [threw |-> FALSE,
          items |-> [i \in DOMAIN rawFeed |-> transformAtprotoPostToEnaforeStatus(rawFeed[i])]]

\* fetchPagedItems on the page the agent returned: when getTimeline throws
\* the call rejects at its await and nothing of the page is written
fetchPagedItemsOfFeed(timelineName, rawFeed, newNextPageId) ==
  IF getAtprotoTimeline(rawFeed).threw
    THEN /\ currentAccountProtocol = "atproto"
         /\ timelineName = currentTimeline
         /\ Len(feed) + Len(rawFeed) <= MaxFeedLen
         /\ feed' = feed \o rawFeed
         /\ lastOp' = [NoOp EXCEPT !.op = "getTimelineThrew"]
         /\ UNCHANGED <<currentTimeline, timelineItemSummaries, timelineItemSummariesToAdd,
                        timelineItemSummariesAreStale, dbVars, database,
                        atprotoUnreadNotificationCount>>
    ELSE fetchPagedItems(timelineName, rawFeed, newNextPageId)

FetchPagedFeed ==
  /\ \E rawFeed \in RawPages : \E newNextPageId \in CursorValues :
       fetchPagedItemsOfFeed("home", rawFeed, newNextPageId)
  /\ UNCHANGED <<idem, storeVars, mutVars>>

InvalidItemNext == FetchPagedFeed

SpecInvalidItem == NormalizeInit /\ [][InvalidItemNext]_vars

\* the valid items of a page, as posts
ValidPostsOf(rawFeed) ==
  {rawFeed[i].post : i \in {j \in DOMAIN rawFeed : IsValidFeedViewPost(rawFeed[j])}}

\* C33: a fetched page that holds one invalid item, one without post or
\* author, is normalized without a throw: the fetch goes through and
\* delivers the valid items of the page, all of them and nothing else.
C33_InvalidItemDoesNotAbortBatch ==
  [][(/\ feed' # feed
      /\ Cardinality({i \in DOMAIN PageOfStep : ~IsValidFeedViewPost(PageOfStep[i])}) = 1)
       => (/\ lastOp'.op = "fetchPagedItems"
           /\ ValidPostsOf(PageOfStep) \subseteq IdsOf(timelineItemSummaries'["home"])
           /\ MissingPost \notin IdsOf(timelineItemSummaries'["home"]))]_vars

(***************************************************************************)
(* A paged fetch whose items cannot be stored                              *)
(***************************************************************************)
\* fetchPagedItems under atproto, the agent returning the page and the
\* cursor and storeFreshTimelineItemsInDatabase rejecting at its first
\* write: the cursor is in the database and in the store by then, the posts
\* are not stored and addPagedTimelineItems is not reached
fetchPagedItemsStoreRejected(timelineName, page, newNextPageId) ==
  LET pdsHostname == pdsHostnameOf(currentAtprotoSessionDid)
  IN /\ currentAccountProtocol = "atproto"
     /\ currentAtprotoSessionDid # ""
     /\ timelineName = currentTimeline
     /\ Len(feed) + Len(page) <= MaxFeedLen
     /\ feed' = feed \o page
     /\ atprotoFeedCursors' = setAtprotoFeedCursor(atprotoFeedCursors, pdsHostname,
                                                   atprotoFeedIdentifier(timelineName),
                                                   newNextPageId)
     /\ timelineNextPageId' = [timelineNextPageId EXCEPT ![timelineName] = newNextPageId]
     /\ lastSet' = [count |-> IF lastSet.count < MaxSets THEN lastSet.count + 1
                              ELSE lastSet.count,
                    did |-> currentAtprotoSessionDid, timeline |-> timelineName,
                    token |-> newNextPageId, restarted |-> FALSE]
     /\ lastOp' = [NoOp EXCEPT !.op = "fetchPagedItemsStoreRejected"]
     /\ UNCHANGED <<currentTimeline, timelineItemSummaries, timelineItemSummariesToAdd,
                    timelineItemSummariesAreStale, currentAtprotoSessionDid, atprotoBookmarks,
                    atprotoBookmarkedPostUris, atprotoPosts, lastTimelineItemId, fetch,
                    database, atprotoUnreadNotificationCount>>

FetchPagedStoreRejected ==
  /\ \E page \in FeedPages(1) : \E newNextPageId \in CursorValues :
       fetchPagedItemsStoreRejected("home", page, newNextPageId)
  /\ UNCHANGED <<idem, storeVars, mutVars>>

TokenFirstNext == FetchPaged \/ FetchPagedStoreRejected

SpecTokenFirst == NormalizeInit /\ [][TokenFirstNext]_vars

\* C34: when a fetch has moved the next-page token of a timeline past a
\* page, the items of the page are in the summary list of the timeline,
\* also when a write fails after the token was written.
C34_TokenAdvancedOnlyWithItems ==
  [][(/\ feed' # feed
      /\ timelineNextPageId'[currentTimeline] # Undefined
      /\ timelineNextPageId'[currentTimeline] # timelineNextPageId[currentTimeline])
       => \A i \in DOMAIN PageOfStep :
            PageOfStep[i].post \in IdsOf(timelineItemSummaries'[currentTimeline])]_vars

(***************************************************************************)
(* Deletions that fail                                                     *)
(***************************************************************************)
\* doDeleteStatus under atproto on an id that is not the uri of a post
DeleteInvalidStatus ==
  /\ currentAccountProtocol = "atproto"
  /\ Cardinality(idleTasks) < MaxIdleTasks
  /\ doDeleteStatus(TargetId, FALSE)
  /\ UNCHANGED notMutVars

DeleteFailureNext == DeleteNext \/ DeleteInvalidStatus

SpecDeleteFailure == DeleteInit /\ [][DeleteFailureNext]_vars

\* a call of doDeleteStatus ends without the server having deleted the status
DeleteFailedStep ==
  /\ call.phase = "pending" \/ toasts' # toasts \/ call.outcome # call'.outcome
  /\ call'.action = "doDeleteStatus"
  /\ call'.phase = "done"
  /\ call'.outcome \in {"networkFailure", "missingIdentifier"}

\* C35: when the network delete of a status fails, or the id of an atproto
\* delete is not the uri of a post, no local deletion is scheduled and none
\* is performed: every summary list holds what it held, the status included.
C35_FailedDeleteKeepsTheStatus ==
  [][DeleteFailedStep
       => (/\ idleTasks' = idleTasks
           /\ timelineItemSummaries' = timelineItemSummaries
           /\ timelineItemSummariesToAdd' = timelineItemSummariesToAdd)
    ]_<<idleTasks, timelineItemSummaries, timelineItemSummariesToAdd>>

\* the delete of a status of the home timeline was rejected by the server:
\* nothing is scheduled, no local deletion has run, and the timeline holds
\* every status, the one of the call among them
C35_Witness ==
  /\ call.action = "doDeleteStatus"
  /\ call.outcome = "networkFailure"
  /\ currentAccountProtocol = "activitypub"
  /\ idleTasks = {}
  /\ lastOp.op = "none"
  /\ IdsOf(timelineItemSummaries["home"]) = Ids

(***************************************************************************)
(* Sessions: the atproto mixins of the store and registerNewInstance       *)
(***************************************************************************)
NoProtocol == ""
Null == "null"
Instances == {"mastodon.example"}

\* atprotoLogin, agent.login resolving with the session of did: the session
\* is put in atprotoSessions and made current, and the ActivityPub instance
\* is cleared
atprotoLoginSucceeded(did) ==
  /\ agentSession' = did
  /\ atprotoSessions' = atprotoSessions \cup {did}
  /\ currentAtprotoSessionDid' = did
  /\ isAtprotoSessionActive' = TRUE
  /\ currentAccountProtocol' = "atproto"
  /\ currentInstance' = NoInstance
  /\ UNCHANGED <<atprotoNotificationsCursor, atprotoUnreadNotificationCount>>

\* atprotoLogin, agent.login rejecting: the catch block clears the flag and
\* nothing else of the session; what the agent keeps of an earlier session is
\* up to the agent
atprotoLoginFailed ==
  /\ agentSession' \in {agentSession, ""}
  /\ isAtprotoSessionActive' = FALSE
  /\ UNCHANGED <<atprotoSessions, currentAtprotoSessionDid, currentAccountProtocol,
                 currentInstance, atprotoNotificationsCursor, atprotoUnreadNotificationCount>>

\* atprotoLogout: logout of _api_atproto/auth.js clears the session of the
\* agent and does not throw
atprotoLogout ==
  /\ agentSession' = ""
  /\ atprotoSessions' = atprotoSessions \ {currentAtprotoSessionDid}
  /\ currentAtprotoSessionDid' = ""
  /\ isAtprotoSessionActive' = FALSE
  /\ currentAccountProtocol' = NoProtocol
  /\ UNCHANGED <<currentInstance, atprotoNotificationsCursor, atprotoUnreadNotificationCount>>

\* atprotoResumeSession: resumeAppSession returns the session of the agent
\* when it has one; with none, or when it throws, the did and the flag are
\* cleared
atprotoResumeSession ==
  /\ IF agentSession # ""
       THEN /\ atprotoSessions' = atprotoSessions \cup {agentSession}
            /\ currentAtprotoSessionDid' = agentSession
            /\ isAtprotoSessionActive' = TRUE
            /\ currentAccountProtocol' = "atproto"
       ELSE /\ currentAtprotoSessionDid' = ""
            /\ isAtprotoSessionActive' = FALSE
            /\ UNCHANGED <<atprotoSessions, currentAccountProtocol>>
  /\ UNCHANGED <<agentSession, currentInstance, atprotoNotificationsCursor,
                 atprotoUnreadNotificationCount>>

\* registerNewInstance: the instance becomes current and the atproto keys of
\* the store are cleared; the sessions and the agent are left alone
registerNewInstance(instanceName) ==
  /\ currentInstance' = instanceName
  /\ currentAccountProtocol' = "activitypub"
  /\ currentAtprotoSessionDid' = ""
  /\ isAtprotoSessionActive' = FALSE
  /\ atprotoNotificationsCursor' = Null
  /\ atprotoUnreadNotificationCount' = 0
  /\ UNCHANGED <<agentSession, atprotoSessions>>

notSessionVars == <<mergeVars, idem, online, statusModifications, cachedPost, following,
                    postingStatus, call, toasts, idleTasks, atprotoBookmarks,
                    atprotoBookmarkedPostUris, atprotoFeedCursors, atprotoPosts,
                    timelineNextPageId, lastTimelineItemId, fetch, lastSet, feed, database,
                    atprotoNotificationsError, atprotoBookmarksList, atprotoBookmarkRecords,
                    runningUpdate>>

\* the store after construction: no protocol, no session, no instance
SessionInit ==
  /\ MergeInit
  /\ currentTimeline = "home"
  /\ idem = NoIdem
  /\ online = TRUE
  /\ currentAccountProtocol = NoProtocol
  /\ statusModifications = [k \in Kinds |-> [key \in StoreKeys |-> NoPre]]
  /\ cachedPost = [k \in Kinds |-> CachedOf(NoPre)]
  /\ following = FALSE
  /\ postingStatus = FALSE
  /\ call = NoCall
  /\ toasts = 0
  /\ idleTasks = {}
  /\ DbQuiet
  /\ CacheQuiet
  /\ StoreQuiet

SessionLogin == (\E did \in Accounts : atprotoLoginSucceeded(did)) /\ UNCHANGED notSessionVars
SessionLoginFailed == atprotoLoginFailed /\ UNCHANGED notSessionVars
SessionLogout == atprotoLogout /\ UNCHANGED notSessionVars
SessionResume == atprotoResumeSession /\ UNCHANGED notSessionVars
RegisterInstance ==
  /\ \E instanceName \in Instances : registerNewInstance(instanceName)
  /\ UNCHANGED notSessionVars

SessionNext ==
  \/ SessionLogin \/ SessionLoginFailed \/ SessionLogout \/ SessionResume \/ RegisterInstance

SpecSession == SessionInit /\ [][SessionNext]_vars

\* C36: whenever the protocol of the current account is atproto an atproto
\* session is active, and the current did names a session of the store.
C36_AtprotoProtocolImpliesActiveSession ==
  currentAccountProtocol = "atproto"
    => (isAtprotoSessionActive /\ currentAtprotoSessionDid \in atprotoSessions)

\* C37: an active atproto session and a current ActivityPub instance never
\* coexist.
C37_ActiveSessionExcludesInstance ==
  isAtprotoSessionActive => currentInstance = NoInstance

(***************************************************************************)
(* fetchAtprotoNotifications (_store/mixins/mixins.js)                     *)
(***************************************************************************)
notifFeedIdentifier == "notifications_all"

\* the message of the ReferenceError for the name newCursor, which the
\* function reads and does not declare
NewCursorIsNotDefined == "newCursor is not defined"

notNotificationVars ==
  <<currentTimeline, timelineItemSummaries, timelineItemSummariesToAdd,
    timelineItemSummariesAreStale, idem, mutVars, currentAtprotoSessionDid, atprotoBookmarks,
    atprotoBookmarkedPostUris, atprotoPosts, timelineNextPageId, lastTimelineItemId, fetch,
    lastSet, cacheVars, isAtprotoSessionActive, currentInstance, atprotoSessions,
    agentSession, atprotoBookmarksList, atprotoBookmarkRecords, runningUpdate>>

\* fetchAtprotoNotifications without an active session
fetchAtprotoNotificationsNotLoggedIn ==
  /\ Falsy(currentAtprotoSessionDid) \/ ~isAtprotoSessionActive
  /\ atprotoNotificationsError' = "Not logged in."
  /\ lastOp' = [NoOp EXCEPT !.op = "fetchAtprotoNotificationsNotLoggedIn"]
  /\ UNCHANGED <<atprotoFeedCursors, atprotoNotificationsCursor>>

\* fetchAtprotoNotifications, listNotifications resolving with the cursor
\* newApiCursor and both writes succeeding: the notifications and the cursor
\* are in the database (the notification stores are read by no operation
\* modelled here); the set that follows evaluates newCursor, so the try
\* block is left for the catch block, which sets the error
fetchAtprotoNotificationsResolved(newApiCursor) ==
  /\ ~Falsy(currentAtprotoSessionDid)
  /\ isAtprotoSessionActive
  /\ atprotoFeedCursors' = setAtprotoFeedCursor(atprotoFeedCursors,
                                                pdsHostnameOf(currentAtprotoSessionDid),
                                                notifFeedIdentifier, newApiCursor)
  /\ atprotoNotificationsError' = NewCursorIsNotDefined
  /\ lastOp' = [NoOp EXCEPT !.op = "fetchAtprotoNotificationsResolved"]
  /\ UNCHANGED atprotoNotificationsCursor

\* fetchAtprotoNotifications, listNotifications rejecting
fetchAtprotoNotificationsRejected ==
  /\ ~Falsy(currentAtprotoSessionDid)
  /\ isAtprotoSessionActive
  /\ atprotoNotificationsError' = "Network error"
  /\ lastOp' = [NoOp EXCEPT !.op = "fetchAtprotoNotificationsRejected"]
  /\ UNCHANGED <<atprotoFeedCursors, atprotoNotificationsCursor>>

FetchNotificationsNotLoggedIn ==
  fetchAtprotoNotificationsNotLoggedIn /\ UNCHANGED notNotificationVars
FetchNotificationsResolved ==
  /\ \E newApiCursor \in CursorValues : fetchAtprotoNotificationsResolved(newApiCursor)
  /\ UNCHANGED notNotificationVars
FetchNotificationsRejected ==
  fetchAtprotoNotificationsRejected /\ UNCHANGED notNotificationVars

NotificationsNext ==
  \/ SessionNext
  \/ FetchNotificationsNotLoggedIn \/ FetchNotificationsResolved \/ FetchNotificationsRejected

SpecNotifications == SessionInit /\ [][NotificationsNext]_vars

\* the cursor of the store for a stored cursor: the store holds null where
\* the record has no cursor
NullIfUndefined(cursor) == IF cursor = Undefined THEN Null ELSE cursor

\* C38: a notifications fetch whose listing and whose local writes all
\* succeed ends without error, with the cursor of the store equal to the
\* cursor it has just written to the database for the notifications feed.
C38_NotificationsFetchEndsInSuccess ==
  [][(lastOp'.op = "fetchAtprotoNotificationsResolved")
       => (/\ atprotoNotificationsError' = ""
           /\ NullIfUndefined(atprotoNotificationsCursor')
                = NullIfUndefined(getAtprotoFeedCursor(atprotoFeedCursors',
                                    pdsHostnameOf(currentAtprotoSessionDid),
                                    notifFeedIdentifier)))]_vars

(***************************************************************************)
(* The list of bookmarks (_store/mixins/mixins.js) over the records of     *)
(* ATPROTO_BOOKMARKS_STORE (_database/atprotoBookmarks.js)                 *)
(***************************************************************************)
\* getAllAtprotoBookmarks (pdsHostname, limit = 50, beforeTimestamp = null)
DefaultBookmarksLimit == 50

\* bookmarks the user adds on top of the persisted ones
MaxNewBookmarks == 3

\* posts are numbered; bookmarkedAt is a time on one clock; the posts the
\* user bookmarks and unbookmarks
ActedPosts == {1, DefaultBookmarksLimit, DefaultBookmarksLimit + 1}
MaxBookmarkedAt == DefaultBookmarksLimit + 1 + MaxNewBookmarks

BookmarkRecord(postUri, bookmarkedAt) == [postUri |-> postUri, bookmarkedAt |-> bookmarkedAt]

\* the sort of both mixins: (a, b) => time of b - time of a, newest first,
\* equal times in the order they had; the place of an entry is one more than
\* the number of entries that come before it
SortNewestFirst(seq) ==
  LET place(i) == 1 + Cardinality({j \in DOMAIN seq :
                                     \/ seq[j].bookmarkedAt > seq[i].bookmarkedAt
                                     \/ seq[j].bookmarkedAt = seq[i].bookmarkedAt /\ j < i})
  IN [k \in DOMAIN seq |-> seq[CHOOSE i \in DOMAIN seq : place(i) = k]]

\* getAllAtprotoBookmarks: the cursor walks the bookmarkedAt index from the
\* newest record and stops once limit records are collected; in the index
\* records of one time follow the order of their keys
getAllAtprotoBookmarkRecords(records, limit) ==
  LET after(p, q) == \/ records[q] < records[p]
                     \/ records[q] = records[p] /\ q < p
      rank(p) == 1 + Cardinality({q \in DOMAIN records : after(q, p)})
      count == IF Cardinality(DOMAIN records) < limit
                 THEN Cardinality(DOMAIN records) ELSE limit
  IN [k \in 1 .. count |->
        LET p == CHOOSE p \in DOMAIN records : rank(p) = k
        IN BookmarkRecord(p, records[p])]

\* addAtprotoBookmark of the database: the record is built with the time of
\* the call; an existing record of the post is kept, and the promise
\* resolves with the record built by this call in both cases
addAtprotoBookmarkRecord(records, postUri, now) ==
  [records |-> IF postUri \in DOMAIN records THEN records
               ELSE [p \in DOMAIN records \cup {postUri} |->
                       IF p = postUri THEN now ELSE records[p]],
   returned |-> BookmarkRecord(postUri, now)]

\* removeAtprotoBookmark of the database: store.delete(postUri)
removeAtprotoBookmarkRecord(records, postUri) ==
  [p \in DOMAIN records \ {postUri} |-> records[p]]

\* new Date() of a call: later than every time recorded so far
Now ==
  LET times == {atprotoBookmarkRecords[p] : p \in DOMAIN atprotoBookmarkRecords}
                 \cup {atprotoBookmarksList[i].bookmarkedAt : i \in DOMAIN atprotoBookmarksList}
                 \cup {DefaultBookmarksLimit + 1}
  IN 1 + (CHOOSE t \in times : \A u \in times : u <= t)

\* the keys of the store of the session's database follow its records
BookmarkKeysFollow ==
  atprotoBookmarks' = [atprotoBookmarks EXCEPT ![pdsHostnameOf(currentAtprotoSessionDid)] =
                         DOMAIN atprotoBookmarkRecords']

\* loadAtprotoBookmarks of the store with a session: the uris and the list
\* are what getAllAtprotoBookmarks(pdsHostname) returns, sorted newest first
loadAtprotoBookmarksList ==
  /\ ~Falsy(currentAtprotoSessionDid)
  /\ isAtprotoSessionActive
  /\ LET bookmarks == getAllAtprotoBookmarkRecords(atprotoBookmarkRecords,
                                                   DefaultBookmarksLimit)
     IN /\ atprotoBookmarkedPostUris' = {bookmarks[i].postUri : i \in DOMAIN bookmarks}
        /\ atprotoBookmarksList' = SortNewestFirst(bookmarks)
  /\ lastOp' = [NoOp EXCEPT !.op = "loadAtprotoBookmarks"]
  /\ UNCHANGED <<atprotoBookmarkRecords, atprotoBookmarks, toasts>>

\* addAtprotoBookmark of the store, the database call resolving: the uri
\* joins the set; the returned record is put on top of the list and the
\* list sorted when the list has no record of the post
addAtprotoBookmarkToList(postUri, now) ==
  /\ ~Falsy(currentAtprotoSessionDid)
  /\ isAtprotoSessionActive
  /\ LET added == addAtprotoBookmarkRecord(atprotoBookmarkRecords, postUri, now)
         listed == \E i \in DOMAIN atprotoBookmarksList :
                     atprotoBookmarksList[i].postUri = postUri
     IN /\ atprotoBookmarkRecords' = added.records
        /\ atprotoBookmarkedPostUris' = atprotoBookmarkedPostUris \cup {postUri}
        /\ atprotoBookmarksList' =
             IF listed THEN atprotoBookmarksList
             ELSE SortNewestFirst(<<added.returned>> \o atprotoBookmarksList)
  /\ BookmarkKeysFollow
  /\ toasts' = 1
  /\ lastOp' = [NoOp EXCEPT !.op = "addAtprotoBookmark"]

\* removeAtprotoBookmark of the store, the database call resolving
removeAtprotoBookmarkFromList(postUri) ==
  /\ ~Falsy(currentAtprotoSessionDid)
  /\ isAtprotoSessionActive
  /\ atprotoBookmarkRecords' = removeAtprotoBookmarkRecord(atprotoBookmarkRecords, postUri)
  /\ atprotoBookmarkedPostUris' = atprotoBookmarkedPostUris \ {postUri}
  /\ atprotoBookmarksList' =
       SelectSeq(atprotoBookmarksList, LAMBDA bm : bm.postUri # postUri)
  /\ BookmarkKeysFollow
  /\ toasts' = 1
  /\ lastOp' = [NoOp EXCEPT !.op = "removeAtprotoBookmark"]

\* either call of the store with the database call rejecting: the catch
\* block shows the failure and nothing else changes
bookmarkCallRejected(name) ==
  /\ ~Falsy(currentAtprotoSessionDid)
  /\ isAtprotoSessionActive
  /\ toasts' = 1
  /\ lastOp' = [NoOp EXCEPT !.op = name]
  /\ UNCHANGED <<atprotoBookmarkRecords, atprotoBookmarks, atprotoBookmarkedPostUris,
                 atprotoBookmarksList>>

notBookmarkListVars ==
  <<currentTimeline, timelineItemSummaries, timelineItemSummariesToAdd,
    timelineItemSummariesAreStale, idem, online, currentAccountProtocol, statusModifications,
    cachedPost, following, postingStatus, call, idleTasks, currentAtprotoSessionDid,
    atprotoFeedCursors, atprotoPosts, timelineNextPageId, lastTimelineItemId, fetch, lastSet,
    cacheVars, isAtprotoSessionActive, currentInstance, atprotoSessions, agentSession,
    atprotoNotificationsError, atprotoNotificationsCursor, runningUpdate>>

\* a session of did:plc:a is active; the database holds what earlier
\* sessions left: no bookmark, or the posts 1 .. n bookmarked in that order
BookmarksInit ==
  /\ MergeInit
  /\ currentTimeline = "home"
  /\ idem = NoIdem
  /\ online = TRUE
  /\ currentAccountProtocol = "atproto"
  /\ statusModifications = [k \in Kinds |-> [key \in StoreKeys |-> NoPre]]
  /\ cachedPost = [k \in Kinds |-> CachedOf(NoPre)]
  /\ following = FALSE
  /\ postingStatus = FALSE
  /\ call = NoCall
  /\ toasts = 0
  /\ idleTasks = {}
  /\ currentAtprotoSessionDid = "did:plc:a"
  /\ \E n \in {0, 1, DefaultBookmarksLimit - 1, DefaultBookmarksLimit} :
       /\ atprotoBookmarkRecords = [p \in 1 .. n |-> p]
       /\ atprotoBookmarks = [h \in Hosts |-> IF h = pdsHostnameOf("did:plc:a")
                                                THEN 1 .. n ELSE {}]
  /\ atprotoBookmarkedPostUris = {}
  /\ atprotoFeedCursors = [h \in Hosts |-> <<>>]
  /\ atprotoPosts = [h \in Hosts |-> {}]
  /\ timelineNextPageId = [t \in CursorTimelines |-> Undefined]
  /\ lastTimelineItemId = Undefined
  /\ fetch = NoFetch
  /\ lastSet = NoSet
  /\ CacheQuiet
  /\ isAtprotoSessionActive = TRUE
  /\ currentInstance = NoInstance
  /\ atprotoSessions = {"did:plc:a"}
  /\ agentSession = "did:plc:a"
  /\ atprotoNotificationsError = ""
  /\ atprotoNotificationsCursor = Undefined
  /\ atprotoBookmarksList = <<>>
  /\ runningUpdate = {}

LoadBookmarksList == loadAtprotoBookmarksList /\ UNCHANGED notBookmarkListVars

\* the user bookmarks and unbookmarks once the list has been loaded
AddBookmarkToList ==
  /\ lastOp.op # "none"
  /\ Now <= MaxBookmarkedAt
  /\ \E postUri \in ActedPosts : addAtprotoBookmarkToList(postUri, Now)
  /\ UNCHANGED notBookmarkListVars
RemoveBookmarkFromList ==
  /\ lastOp.op # "none"
  /\ \E postUri \in ActedPosts : removeAtprotoBookmarkFromList(postUri)
  /\ UNCHANGED notBookmarkListVars
BookmarkCallRejected ==
  /\ lastOp.op # "none"
  /\ \E name \in {"addAtprotoBookmarkRejected", "removeAtprotoBookmarkRejected"} :
       bookmarkCallRejected(name)
  /\ UNCHANGED notBookmarkListVars

BookmarksListNext ==
  \/ LoadBookmarksList \/ AddBookmarkToList \/ RemoveBookmarkFromList \/ BookmarkCallRejected

SpecBookmarksList == BookmarksInit /\ [][BookmarksListNext]_vars

ListedRecords ==
  {<<atprotoBookmarksList[i].postUri, atprotoBookmarksList[i].bookmarkedAt>> :
     i \in DOMAIN atprotoBookmarksList}
PersistedRecords ==
  {<<p, atprotoBookmarkRecords[p]>> : p \in DOMAIN atprotoBookmarkRecords}
EachPostListedOnce ==
  \A i, j \in DOMAIN atprotoBookmarksList :
    i # j => atprotoBookmarksList[i].postUri # atprotoBookmarksList[j].postUri

\* C39: once the bookmarks have been loaded, and after every add and remove
\* that follows in the session, the list of the store holds exactly the
\* records of the local store, with their bookmarkedAt, each post once.
C39_ListHoldsExactlyThePersistedRecords ==
  lastOp.op # "none" => (ListedRecords = PersistedRecords /\ EachPostListedOnce)

\* the same for the post uris only
ListedPostsArePersistedPosts ==
  lastOp.op # "none"
    => {atprotoBookmarksList[i].postUri : i \in DOMAIN atprotoBookmarksList}
         = DOMAIN atprotoBookmarkRecords

(***************************************************************************)
(* runningUpdate over a load-more that ends either way                     *)
(***************************************************************************)
\* fetchMoreItemsAtBottomOfTimeline on favorites or bookmarks, the fetch
\* resolving under atproto
LoadMoreFavorites ==
  /\ currentTimeline \in PagedOnlyTimelines
  /\ online
  /\ \E page \in FeedPages(1) : \E newNextPageId \in CursorValues :
       fetchPagedItems(currentTimeline, page, newNextPageId)
  /\ runningUpdate' = runningUpdateAfter(currentTimeline, FALSE)
  /\ UNCHANGED <<idem, sessionVars, mutVars>>

\* the same under ActivityPub
LoadMoreFavoritesActivityPub ==
  /\ currentTimeline \in PagedOnlyTimelines
  /\ online
  /\ \E items \in FeedBatches : \E newNextPageId \in CursorValues :
       fetchPagedItemsActivityPub(currentTimeline, items, newNextPageId)
  /\ runningUpdate' = runningUpdateAfter(currentTimeline, FALSE)
  /\ UNCHANGED <<idem, sessionVars, mutVars>>

\* fetchMoreItemsAtBottomOfTimeline on favorites or bookmarks, the network
\* call of fetchPagedItems rejecting: the rejection passes through
\* fetchTimelineItemsAndPossiblyFallBack, which has no catch block
LoadMoreFavoritesThrew ==
  /\ currentTimeline \in PagedOnlyTimelines
  /\ fetchPagedItemsRejected(currentTimeline)
  /\ runningUpdate' = runningUpdateAfter(currentTimeline, TRUE)
  /\ UNCHANGED <<idem, sessionVars, mutVars>>

RunningUpdateNext ==
  \/ LoadMoreFavorites \/ LoadMoreFavoritesActivityPub \/ LoadMoreFavoritesThrew
  \/ OnlineChanged

SpecRunningUpdate == FavoritesInit /\ [][RunningUpdateNext]_vars

\* a step of fetchMoreItemsAtBottomOfTimeline from its call to its end
LoadMoreEndedStep ==
  /\ online' = online
  /\ lastOp'.op \in {"fetchPagedItems", "fetchPagedItemsRejected"}

\* a load-more whose fetch resolves leaves runningUpdate false
ResolvedLoadMoreClearsRunningUpdate ==
  [][(LoadMoreEndedStep /\ lastOp'.op = "fetchPagedItems")
       => (currentTimeline \notin runningUpdate')]_vars

\* C40: when fetchMoreItemsAtBottomOfTimeline has ended for a timeline, its
\* fetch resolved or thrown, runningUpdate of the timeline is false.
C40_RunningUpdateFalseAfterLoadMore ==
  [][LoadMoreEndedStep => (currentTimeline \notin runningUpdate')]_vars

====
